---- MODULE Spec2Model ----
(***************************************************************************)
(* The diagnostic session handle (backend/src/diag/mod.rs, Nag52Diag), the  *)
(* reconnect test that drives it (test_kwp_reconnect), the coredump reader  *)
(* of the configuration app (config_app/src/ui/crashanalyzer.rs), the       *)
(* reads and the SCN write of its configuration page                        *)
(* (config_app/src/ui/configuration/mod.rs), its advanced settings page     *)
(* (config_app/src/ui/settings_ui_gen.rs), the firmware header scan         *)
(* (backend/src/hw/firmware.rs, load_binary), the decoding of the ECU       *)
(* identification (backend/src/diag/ident.rs, query_ecu_data), the session  *)
(* options and the log stream of Nag52Diag::new, the telemetry records      *)
(* (config_app/src/ui/diagnostics/rli.rs), and of the configuration page    *)
(* the unit conversions of its form and the EFUSE write.                    *)
(*                                                                          *)
(* A session is named by the number of the Nag52Diag::new call that built   *)
(* it (1, 2, ...); 0 stands for Option::None.  A session is in `alive`      *)
(* while the transport it was opened on still works.                        *)
(***************************************************************************)
EXTENDS Integers, Sequences, FiniteSets, TLC

\* ------------------------------------------------------------------ bounds
\* Sessions Nag52Diag::new may build in one run (the first open included).
MaxGen == 3

\* Largest coredump size and block size of the dense part of the ECU's
\* answers (the sparse part adds a few larger ones).
MaxSize == 3
MaxBs == 3
\* Transfer-data requests followed in one transfer.
MaxBlocks == 260

\* Settings values other than the TCU default, and the operations a user
\* makes on the settings page in one run.
MaxVal == 1
MaxEdits == 2

\* Largest offset at which a firmware file carries the header magic.
MaxOffset == 52

\* Log messages a session's channel queues.
MaxLog == 2

\* Frames that draw the configuration form.
MaxFrames == 2

\* EFUSE write requests the page sends.
MaxWrites == 2

\* ------------------------------------------------------- program constants
\* `for i in 0..5` of test_kwp_reconnect.
MaxAttempts == 5

\* `&read[20..]` of on_flash_end: the partition header that is not saved.
HeaderLen == 20

None == 0

\* firmware.rs: HEADER_SIZE, HEADER_MAGIC, and the last offset the scan of
\* load_binary looks at (`header_start_idx > 50`).
HEADER_SIZE == 256
HEADER_MAGIC == <<50, 84, 205, 171>>
ScanLimit == 50

\* The owner of the test ("kwp") and a clone of it (derive(Clone)).
Handles == {"kwp", "clone"}

\* The devices a scanner can find: HardwareInfo.name and the AdapterType that
\* opens it.
Devices == {[name |-> "/dev/ttyUSB0", ty |-> "USB"],
            [name |-> "J2534 adapter", ty |-> "Passthru"],
            [name |-> "can0", ty |-> "SocketCAN"]}

\* What a closure that reads the identification returns on session g: the
\* ECU answers, positively or with a negative response, while the session's
\* transport works; on a lost transport the request fails in the channel.
ConnErrors == {"Timeout", "HardwareError", "DeviceNotOpen"}

VARIABLES
  info,           \* Nag52Diag.info.name, per handle
  endpoint,       \* Nag52Diag.endpoint: the session whose device it is, or None
  endpoint_type,  \* Nag52Diag.endpoint_type
  server,         \* Nag52Diag.server: the session, or None
  exists,         \* the handles constructed so far
  built,          \* number of sessions Nag52Diag::new has built
  linkUp,         \* the device is plugged in
  alive,          \* sessions whose transport still works
  torn,           \* sessions some holder has called try_reconnect on
  lostSince,      \* per handle: transport lost, and no try_reconnect Ok since
  justOk,         \* per handle: its last operation was a try_reconnect Ok
  hpc,            \* per handle: "idle", or "connect" inside try_reconnect
  taken,          \* per handle: what its running try_reconnect took
  connectAt,      \* what the last AdapterHw::try_connect was attempted with
  call,           \* the last with_kwp call and what it did
  tpc,            \* test_kwp_reconnect: position
  attempt,        \* test_kwp_reconnect: try_reconnect calls made
  succeeded,      \* test_kwp_reconnect: a try_reconnect returned Ok
  failable,       \* test_kwp_reconnect: the error of the first query
  read_state,     \* CrashAnalyzerUI.read_state
  prevTag,        \* the tag read_state had before its last write
  save_path,      \* CrashAnalyzerUI.save_path is Some
  wpc,            \* the coredump worker thread: position
  size,           \* the worker's (address, size, block size) of init_flash_mode
  got24,          \* the worker has the answer to local identifier 0x24
  block_count,    \* the worker's block_count
  dataLen,        \* the worker's data.len()
  i,              \* the worker's i
  exact,          \* every block so far carried min(block size, remaining) bytes
  sent,           \* requests of this transfer, per service: 0x35, 0x36, 0x37
  lastReq,        \* the last request of this transfer on the wire
  lastRes,        \* the worker's last exchange of this run and how it ended
  persisted,      \* bytes written to dump.elf by this transfer, -1: no file
  ecuDump,        \* the ECU: size of the coredump it holds
  scn,            \* ConfigPage.scn is Some
  efuse,          \* ConfigPage.efuse: "None", or Some with this board_ver
  show_efuse,     \* ConfigPage.show_efuse
  status,         \* ConfigPage.status
  upc,            \* the UI thread: "idle", or its place inside a with_kwp closure
  ready,          \* TcuAdvSettingsUi.ready (PageLoadState)
  rec,            \* the DataState of each settings record
  open_settings,  \* TcuAdvSettingsUi.open_settings
  spc,            \* the settings worker thread: position
  sidx,           \* the settings worker: records read so far
  ecuSet,         \* the ECU: the settings it stores, per record
  notified,       \* the kind of the last notification a frame returned
  kwpOp,          \* the session exchanges the last settings step made
  edits,          \* operations the user has made on the settings page
  fwFile,         \* the file load_binary is called on
  fwResult,       \* what load_binary returned for it
  identIn,        \* the ECU: the identification it answers with
  identOut,       \* what query_ecu_data returned
  opts,           \* per session: the options Nag52Diag::new built it with
  log_receiver,   \* Nag52Diag.log_receiver, per handle
  logq,           \* per session: log messages queued in its channel
  logOp,          \* the last read_log_msg call and what it did
  rliId,          \* the RecordIdents value query_ecu is called on
  rliEcu,         \* the ECU: its answer to the read of that identifier
  rliReads,       \* the identifiers the last query_ecu read
  rliOut,         \* what query_ecu returned
  rliView,        \* the table and the chart data made from a Canbus record
  ecuScn,         \* the ECU: the TcmCoreConfig it answers 0xFE with
  scnVal,         \* the fields of ConfigPage.scn when it is Some
  frames,         \* frames that drew the configuration form
  show_final_warning, \* ConfigPage.show_final_warning
  ecuBoard,       \* the ECU: the board version in its EFUSE block
  efuseRead,      \* the board version of the last successful read of 0xFD
  cfgOp,          \* the page's last exchange with the ECU and how it ended
  efuseReq,       \* the 0x3B 0xFD requests sent, and the state at the last
  flashIn,        \* the ECU: its answers to 0x24 and to the request-upload
  flashOut,       \* what init_flash_mode sent and returned on them
  w2,             \* where a second coredump worker thread is
  wlog,           \* the page's last click, if a write: its with_kwp calls and
                  \* requests
  rlog            \* the page's last click, if a "Read Configuration": its
                  \* reads, their results, and the blocks held before it

diagVars == <<info, endpoint, endpoint_type, server, exists, built, linkUp,
              alive, torn, lostSince, justOk, hpc, taken, connectAt, call>>
testVars == <<tpc, attempt, succeeded, failable>>
dumpVars == <<read_state, prevTag, save_path, wpc, size, got24, block_count,
              dataLen, i, exact, sent, lastReq, lastRes, persisted, ecuDump>>
cfgVars == <<scn, efuse, show_efuse, status, upc>>
setVars == <<ready, rec, open_settings, spc, sidx, ecuSet, notified, kwpOp,
             edits>>
fwVars == <<fwFile, fwResult>>
identVars == <<identIn, identOut>>
sessVars == <<opts, log_receiver, logq, logOp>>
rliVars == <<rliId, rliEcu, rliReads, rliOut, rliView>>
unitVars == <<ecuScn, scnVal, frames>>
fuseVars == <<show_final_warning, ecuBoard, efuseRead, cfgOp, efuseReq>>
flashVars == <<flashIn, flashOut>>
twinVars == <<w2>>
writeVars == <<wlog, rlog>>
tailVars == <<flashVars, twinVars, writeVars>>
moreVars == <<rliVars, unitVars, fuseVars, tailVars>>
otherVars == <<setVars, fwVars, identVars, sessVars, moreVars>>
appVars == <<dumpVars, cfgVars, otherVars>>
vars == <<diagVars, testVars, appVars>>

\* ---------------------------------------------------------------- with_kwp
\* kwp_fn's possible results on session g (g is a session, not None).
IdentOutcomes(g) ==
  IF g \in alive THEN {"Ok", "ECUError"} ELSE ConnErrors

\* with_kwp that runs the closure whether or not a session is held.
with_kwp_unchecked(srv, r) ==
  [invoked |-> 1, result |-> r]

\* Nag52Diag::with_kwp: the closure runs once on Some(s) and its result is
\* returned; on None the result is DeviceNotOpen and the closure never runs.
with_kwp(srv, r) ==
  IF srv = None
    THEN [invoked |-> 0, result |-> "DeviceNotOpen"]
    ELSE [invoked |-> 1, result |-> r]

\* The closure results with_kwp may be called with on handle h.
ClosureResults(h) ==
  IF server[h] = None THEN {"unused"} ELSE IdentOutcomes(server[h])

\* A with_kwp call on handle h whose closure would return r.
Call(h, r) ==
  /\ call' = [h        |-> h,
              gen      |-> server[h],
              live     |-> server[h] \in alive,
              closure  |-> r,
              invoked  |-> with_kwp(server[h], r).invoked,
              result   |-> with_kwp(server[h], r).result,
              lost     |-> lostSince[h],
              afterOk  |-> justOk[h],
              torn     |-> server[h] \in torn]
  /\ justOk' = [justOk EXCEPT ![h] = FALSE]

\* ------------------------------------------------------------ Nag52Diag::new
\* The sessions one run can build.
Sessions == 1 .. MaxGen

\* No session built under this number yet.
NoOptions == [ty |-> "none", send_id |-> 0, recv_id |-> 0,
              read_timeout_ms |-> 0, write_timeout_ms |-> 0,
              tester_present_interval_ms |-> 0,
              tester_present_require_response |-> FALSE,
              modes |-> {}, block_size |-> 0, st_min |-> 0]

\* Options that stream on every adapter.
NewOptionsStreaming(ty) ==
  [ty |-> ty, send_id |-> 2017, recv_id |-> 2025,
   read_timeout_ms |-> 10000, write_timeout_ms |-> 10000,
   tester_present_interval_ms |-> 2000,
   tester_present_require_response |-> TRUE,
   modes |-> {147}, block_size |-> 0, st_min |-> 0]

\* Nag52Diag::new: IsoTPSettings (block_size and st_min 0, and 8 and 0x20 on
\* SocketCAN), DiagServerBasicOptions (0x07E1, 0x07E9, the timeouts),
\* DiagServerAdvancedOptions (tester present) and the session mode 0x93
\* registered with the protocol.
NewOptions(ty) ==
  [ty |-> ty, send_id |-> 2017, recv_id |-> 2025,
   read_timeout_ms |-> 10000, write_timeout_ms |-> 10000,
   tester_present_interval_ms |-> 2000,
   tester_present_require_response |-> TRUE,
   modes |-> {147},
   block_size |-> IF ty = "SocketCAN" THEN 8 ELSE 0,
   st_min |-> IF ty = "SocketCAN" THEN 32 ELSE 0]

\* Nag52USB::consume_log_receiver: the device hands out its log stream, or
\* has none to hand out.
consume_log_receiver == {TRUE, FALSE}

\* A handle that asks every adapter for a log stream.
LoggerOfAny(ty) == consume_log_receiver

\* Nag52Diag::new, `let logger = if let AdapterHw::Usb(usb) = &hw {..} else
\* { Arc::new(None) }`: whether the Option is Some.
Logger(ty) == IF ty = "USB" THEN consume_log_receiver ELSE {FALSE}

\* Nag52Diag.log_receiver: the session whose stream it is, and whether the
\* Option is Some.
LogReceiver(g, some) == [gen |-> g, some |-> some]

\* Nag52Diag::can_read_log
can_read_log(rx) == rx.some

\* Receiver::try_recv().ok() on a channel with n messages queued: the
\* first one is taken, or the result is None.
try_recv(n) == [got |-> n > 0, left |-> IF n > 0 THEN n - 1 ELSE 0]

\* Nag52Diag::read_log_msg on handle h.
read_log_msg(h) ==
  IF log_receiver[h].some
    THEN try_recv(logq[log_receiver[h].gen])
    ELSE [got |-> FALSE, left |-> 0]

\* ----------------------------------------------------------- try_reconnect
\* A reconnect that keeps the session it was called with.
TakeServerKept(srv) == srv

\* self.server.take(): what the handle's server field holds afterwards.
TakeServer(srv) == None

\* try_reconnect, first block: self.server.take(); self.endpoint.take().
Take(h) ==
  /\ taken' = [taken EXCEPT ![h] = [gen  |-> server[h],
                                    name |-> info[h],
                                    ty   |-> endpoint_type[h]]]
  /\ torn' = IF server[h] = None THEN torn ELSE torn \cup {server[h]}
  /\ server' = [server EXCEPT ![h] = TakeServer(server[h])]
  /\ endpoint' = [endpoint EXCEPT ![h] = None]
  /\ justOk' = [justOk EXCEPT ![h] = FALSE]
  /\ hpc' = [hpc EXCEPT ![h] = "connect"]

\* The name and adapter kind try_reconnect looks the device up with.
LookupName(h) == info[h]
LookupType(h) == endpoint_type[h]

\* The handles that still hold session g or its device.
Holders(g) ==
  IF g = None THEN {} ELSE {k \in exists : server[k] = g \/ endpoint[k] = g}

\* A rebuild that leaves the handle without its new session.
NewServerLost(g) == None

\* Self { server: Some(Arc::new(kwp)), .. } of Nag52Diag::new.
NewServer(g) == g

\* AdapterHw::try_connect(&self.info, self.endpoint_type)? and
\* *self = Self::new(dev)?: ok is what the device and the channel allow.
Connect(h, ok) ==
  /\ connectAt' = [made     |-> TRUE,
                   h        |-> h,
                   name     |-> LookupName(h),
                   ty       |-> LookupType(h),
                   hadName  |-> taken[h].name,
                   hadType  |-> taken[h].ty,
                   old      |-> taken[h].gen,
                   holders  |-> Holders(taken[h].gen),
                   ok       |-> ok]
  /\ hpc' = [hpc EXCEPT ![h] = "idle"]
  /\ IF ok
       THEN /\ built' = built + 1
            /\ alive' = alive \cup {built + 1}
            /\ opts' = [opts EXCEPT ![built + 1] = NewOptions(LookupType(h))]
            /\ \E some \in Logger(LookupType(h)) :
                 log_receiver' = [log_receiver EXCEPT
                                    ![h] = LogReceiver(built + 1, some)]
            /\ server' = [server EXCEPT ![h] = NewServer(built + 1)]
            /\ endpoint' = [endpoint EXCEPT ![h] = built + 1]
            /\ info' = [info EXCEPT ![h] = LookupName(h)]
            /\ endpoint_type' = [endpoint_type EXCEPT ![h] = LookupType(h)]
            /\ lostSince' = [lostSince EXCEPT ![h] = FALSE]
            /\ justOk' = [justOk EXCEPT ![h] = TRUE]
       ELSE UNCHANGED <<built, alive, server, endpoint, info, endpoint_type,
                        lostSince, justOk, opts, log_receiver>>

\* Whether the device can be found and a session built on it: never while
\* it is unplugged, and a found device may still refuse (busy, no channel).
ConnectResults == IF linkUp /\ built < MaxGen THEN {TRUE, FALSE} ELSE {FALSE}

\* ------------------------------------------------------ test_kwp_reconnect
\* A caller that treats an ECU negative response like any other error.
IsEcuErrorNever(e) == FALSE

\* `if let DiagError::ECUError { .. } = e {} else { reconnect }`
IsEcuError(e) == e = "ECUError"

\* `for i in 0..5`
LoopBound == MaxAttempts

\* println!("{:?}", kwp.query_ecu_data()): the result is only printed.
TestIdent ==
  /\ tpc = "ident"
  /\ \E r \in ClosureResults("kwp") : Call("kwp", r)
  /\ tpc' = "query"
  /\ UNCHANGED <<info, endpoint, endpoint_type, server, exists, built, linkUp,
                 alive, torn, lostSince, hpc, connectAt, taken,
                 attempt, succeeded, failable, appVars>>

\* let failable = kwp.with_kwp(..); assert!(failable.is_err());
TestQuery ==
  /\ tpc = "query"
  /\ \E r \in ClosureResults("kwp") : Call("kwp", r)
  /\ failable' = call'.result
  /\ tpc' = IF call'.result = "Ok" THEN "panicked" ELSE "branch"
  /\ UNCHANGED <<info, endpoint, endpoint_type, server, exists, built, linkUp,
                 alive, torn, lostSince, hpc, connectAt, taken,
                 attempt, succeeded, appVars>>

\* The ECUError branch is empty; every other error enters the loop.
TestBranch ==
  /\ tpc = "branch"
  /\ tpc' = IF IsEcuError(failable) THEN "final" ELSE "reconnect"
  /\ UNCHANGED <<diagVars, attempt, succeeded, failable, appVars>>

\* kwp.try_reconnect(), up to the device lookup.
TestReconnectTake ==
  /\ tpc = "reconnect"
  /\ attempt < LoopBound
  /\ Take("kwp")
  /\ attempt' = attempt + 1
  /\ tpc' = "connect"
  /\ UNCHANGED <<info, endpoint_type, exists, built, linkUp, alive, lostSince,
                 connectAt, call, succeeded, failable, appVars>>

\* kwp.try_reconnect(), the lookup and the rebuild; Ok breaks the loop, Err
\* sleeps and goes on to the next attempt.
TestReconnectConnect ==
  /\ tpc = "connect"
  /\ \E ok \in ConnectResults :
       /\ Connect("kwp", ok)
       /\ succeeded' = (succeeded \/ ok)
       /\ tpc' = IF ok \/ attempt >= LoopBound THEN "final" ELSE "reconnect"
  /\ UNCHANGED <<exists, linkUp, torn, call, taken, attempt, failable,
                 dumpVars, cfgVars, setVars, fwVars, identVars, moreVars,
                 logq, logOp>>

\* let must_ok = kwp.with_kwp(..); assert!(must_ok.is_ok());
TestFinal ==
  /\ tpc = "final"
  /\ \E r \in ClosureResults("kwp") : Call("kwp", r)
  /\ tpc' = IF call'.result = "Ok" THEN "done" ELSE "panicked"
  /\ UNCHANGED <<info, endpoint, endpoint_type, server, exists, built, linkUp,
                 alive, torn, lostSince, hpc, connectAt, taken,
                 attempt, succeeded, failable, appVars>>

\* ------------------------------------------------------- a clone of the handle
\* #[derive(Clone)]: every field is copied, the session and the device are
\* shared (Arc).
CloneHandle ==
  /\ "clone" \notin exists
  /\ hpc["kwp"] = "idle"
  /\ exists' = exists \cup {"clone"}
  /\ info' = [info EXCEPT !["clone"] = info["kwp"]]
  /\ endpoint' = [endpoint EXCEPT !["clone"] = endpoint["kwp"]]
  /\ endpoint_type' = [endpoint_type EXCEPT !["clone"] = endpoint_type["kwp"]]
  /\ server' = [server EXCEPT !["clone"] = server["kwp"]]
  /\ lostSince' = [lostSince EXCEPT !["clone"] = lostSince["kwp"]]
  /\ log_receiver' = [log_receiver EXCEPT !["clone"] = log_receiver["kwp"]]
  /\ UNCHANGED <<built, linkUp, alive, torn, justOk, hpc, connectAt, call,
                 taken, testVars, dumpVars, cfgVars, setVars, fwVars,
                 identVars, moreVars, opts, logq, logOp>>

\* The clone's owner reads the identification.
CloneQuery ==
  /\ "clone" \in exists
  /\ hpc["clone"] = "idle"
  /\ \E r \in ClosureResults("clone") : Call("clone", r)
  /\ UNCHANGED <<info, endpoint, endpoint_type, server, exists, built, linkUp,
                 alive, torn, lostSince, hpc, connectAt, taken, testVars, appVars>>

\* The clone's owner calls try_reconnect.
CloneReconnectTake ==
  /\ "clone" \in exists
  /\ hpc["clone"] = "idle"
  /\ Take("clone")
  /\ UNCHANGED <<info, endpoint_type, exists, built, linkUp, alive, lostSince,
                 connectAt, call, testVars, appVars>>

CloneReconnectConnect ==
  /\ hpc["clone"] = "connect"
  /\ \E ok \in ConnectResults : Connect("clone", ok)
  /\ UNCHANGED <<exists, linkUp, torn, call, taken, testVars,
                 dumpVars, cfgVars, setVars, fwVars, identVars, moreVars,
                 logq, logOp>>

\* ------------------------------------------------------------- environment
\* The device is unplugged: every session opened on it stops working.
TransportLost ==
  /\ linkUp
  /\ linkUp' = FALSE
  /\ alive' = {}
  /\ lostSince' = [h \in Handles |-> TRUE]
  /\ UNCHANGED <<info, endpoint, endpoint_type, server, exists, built, torn,
                 justOk, hpc, connectAt, call, taken, testVars, appVars>>

\* The device is plugged in again.
Replug ==
  /\ ~linkUp
  /\ linkUp' = TRUE
  /\ UNCHANGED <<info, endpoint, endpoint_type, server, exists, built, alive,
                 torn, lostSince, justOk, hpc, connectAt, call, taken,
                 testVars, appVars>>

\* The device behind session g writes a line to its log stream.
LogArrive ==
  /\ \E g \in alive :
       /\ \E h \in exists : log_receiver[h] = LogReceiver(g, TRUE)
       /\ logq[g] < MaxLog
       /\ logq' = [logq EXCEPT ![g] = @ + 1]
  /\ UNCHANGED <<diagVars, testVars, dumpVars, cfgVars, setVars, fwVars,
                 identVars, moreVars, opts, log_receiver, logOp>>

\* The owner of handle h asks for a log message.
ReadLogMsg ==
  /\ \E h \in exists :
       /\ logq' = IF log_receiver[h].some
                    THEN [logq EXCEPT ![log_receiver[h].gen] =
                                         read_log_msg(h).left]
                    ELSE logq
       /\ logOp' = [h       |-> h,
                    ty      |-> endpoint_type[h],
                    can     |-> can_read_log(log_receiver[h]),
                    queued  |-> IF log_receiver[h].gen = None THEN 0
                                ELSE logq[log_receiver[h].gen],
                    got     |-> read_log_msg(h).got,
                    before  |-> logq,
                    after   |-> logq']
  /\ UNCHANGED <<diagVars, testVars, dumpVars, cfgVars, setVars, fwVars,
                 identVars, moreVars, opts, log_receiver>>

\* ------------------------------------------------------------ crashanalyzer
\* ReadState values; the fields a variant lacks are 0 and "".
StNone == [tag |-> "None", id |-> 0, out_of |-> 0, bytes_written |-> 0,
           text |-> "", err |-> ""]
StPrepare == [StNone EXCEPT !.tag = "Prepare"]
StCompleted == [StNone EXCEPT !.tag = "Completed"]
\* An Aborted state whose reason leaves the error out.
StAbortedNoReason(text, e) == [StNone EXCEPT !.tag = "Aborted", !.text = text]

\* ReadState::Aborted(format!("<text>{}", e)): the reason is the text
\* followed by the Display form of the error.
StAborted(text, e) == [StNone EXCEPT !.tag = "Aborted", !.text = text, !.err = e]
StReadingBlock(id, out_of, written) ==
  [StNone EXCEPT !.tag = "ReadingBlock", !.id = id, !.out_of = out_of,
                 !.bytes_written = written]

\* A page that offers the button in every state.
is_done_always(st) == TRUE

\* ReadState::is_done
is_done(st) == st.tag \in {"None", "Completed", "Aborted"}

\* The handle the page holds, and the worker's clone of it (nag_c).
nag_c == server["kwp"]

\* The errors a request can end with: a negative response of the ECU, or
\* a failure of the exchange.
ReqErrors == {"ECUError", "Timeout"}

\* What the ECU may report for the coredump size in local identifier 0x24,
\* and for the block size in its answer to the request-upload of sz bytes
\* (the largest dump is followed with blocks of 256 bytes only).
DumpSizes == (0 .. MaxSize) \cup {HeaderLen + 5, 258, 1000}
BlockSizes(sz) == IF sz = 1000 THEN {0, 256} ELSE (0 .. MaxBs) \cup {256}
DumpAddress == 3211264

\* An exchange of the worker with the ECU and its result: "Ok", or the
\* error of the DiagServerResult.
Exchange(op, res) == [op |-> op, res |-> res]
NoExchange == Exchange("none", "none")

\* A write of read_state by the worker or the page.
SetState(st) ==
  /\ read_state' = st
  /\ prevTag' = read_state.tag

\* init_flash_mode, `if size == 0 { return Ok((0, 0, 0)) }`.
EmptyDumpNever(sz) == FALSE

EmptyDump(sz) == sz = 0

\* u32::from_le_bytes of the four bytes of res from index k (from 0).
FromLe(res, k) ==
  res[k + 1] + 256 * res[k + 2] + 65536 * res[k + 3] + 16777216 * res[k + 4]

\* u32::to_le_bytes, what the ECU does to report v.
ToLe(v) ==
  <<v % 256, (v \div 256) % 256, (v \div 65536) % 256, (v \div 16777216) % 256>>

\* init_flash_mode on the answer to 0x24: `if res.len() != 8`, then the
\* address and the size, little-endian, from res[0..4] and res[4..8].
Check24(res) ==
  IF Len(res) /= 8
    THEN [res |-> "InvalidResponseLength", address |-> 0, size |-> 0]
    ELSE [res |-> "Ok", address |-> FromLe(res, 0), size |-> FromLe(res, 4)]

\* A request-upload message with the fields least significant byte first.
UploadReqLittle(address, sz) ==
  <<53, 49,
    address % 256, (address \div 256) % 256, (address \div 65536) % 256,
    sz % 256, (sz \div 256) % 256, (sz \div 65536) % 256>>

\* init_flash_mode: the request-upload message, address and size as three
\* big-endian bytes each (`(x >> 16) as u8`, `(x >> 8) as u8`, `x as u8`).
UploadReq(address, sz) ==
  <<53, 49,
    (address \div 65536) % 256, (address \div 256) % 256, address % 256,
    (sz \div 65536) % 256, (sz \div 256) % 256, sz % 256>>

\* init_flash_mode on the answer to the request-upload: `if res.len() != 3`,
\* then `((res[1] as u32) << 8) | res[2] as u32`.
CheckUpload(res) ==
  IF Len(res) /= 3
    THEN [res |-> "InvalidResponseLength", bs |-> 0]
    ELSE [res |-> "Ok", bs |-> res[2] * 256 + res[3]]

\* The ECU's answer to the request-upload with block size bs: the positive
\* response identifier 0x75 and bs as two big-endian bytes.
UploadAnswer(bs) == <<117, bs \div 256, bs % 256>>

\* What init_flash_mode sent and returned: req is the request-upload
\* message, <<>> when none was sent.
FlashResult(res, address, sz, bs, req) ==
  [done |-> TRUE, res |-> res, address |-> address, size |-> sz, bs |-> bs,
   req |-> req]
NoFlashResult == [FlashResult("none", 0, 0, 0, <<>>) EXCEPT !.done = FALSE]

\* init_flash_mode on an ECU that accepts the session and answers 0x24 with
\* ans and the request-upload with up.
init_flash_mode(ans, up) ==
  IF Check24(ans).res /= "Ok"
    THEN FlashResult(Check24(ans).res, 0, 0, 0, <<>>)
    ELSE IF Check24(ans).size = 0
      THEN FlashResult("Ok", 0, 0, 0, <<>>)
      ELSE IF CheckUpload(up).res /= "Ok"
        THEN FlashResult(CheckUpload(up).res, 0, 0, 0,
                         UploadReq(Check24(ans).address, Check24(ans).size))
        ELSE FlashResult("Ok", Check24(ans).address, Check24(ans).size,
                         CheckUpload(up).bs,
                         UploadReq(Check24(ans).address, Check24(ans).size))

\* init_flash_mode is run on the ECU's answers.
InitFlashMode ==
  /\ ~flashOut.done
  /\ flashOut' = init_flash_mode(flashIn.info, flashIn.up)
  /\ UNCHANGED <<diagVars, testVars, dumpVars, cfgVars, setVars, fwVars,
                 identVars, sessVars, rliVars, unitVars, fuseVars, twinVars,
                 writeVars, flashIn>>

\* The addresses and sizes an ECU reports in 0x24 (the top byte is kept
\* below 0x80).
Reported ==
  {0, 1, 20, 255, 256, 65535, 65536, 3211264, 16777215, 16777216, 16777217,
   2147483647}

\* The ECU's answers to 0x24: address and size little-endian, and answers a
\* byte short, a byte long and empty.
Infos ==
  LET full == {ToLe(a) \o ToLe(sz) : a \in Reported, sz \in Reported}
  IN  full \union {SubSeq(r, 1, 7) : r \in full}
           \union {r \o <<0>> : r \in full} \union {<<>>}

\* The ECU's answers to the request-upload: block sizes 0, 1, 255, 256 and
\* 65535, and answers of 1, 2 and 4 bytes.
Ups ==
  {UploadAnswer(bs) : bs \in {0, 1, 255, 256, 65535}}
    \union {<<117>>, <<117, 1>>, <<117, 1, 0, 0>>}

\* The ECU answers that the worker's exchanges take as they come.
SampleFlash == [info |-> ToLe(DumpAddress) \o ToLe(0), up |-> UploadAnswer(256)]

InitFlash ==
  /\ flashIn \in [info : Infos, up : Ups]
  /\ flashOut = NoFlashResult

\* `let block_count = size.1 / size.2` (u32 division).
BlockCount(sz, bs) == sz \div bs

\* A loop that goes on until more than the size has been read.
LoopCondInclusive(len, sz) == len <= sz

\* `while (data.len() as u32) < size.1`
LoopCond(len, sz) == len < sz

\* A counter that is not cut to one byte.
SeqCounterNoWrap(n) == n + 1

\* `((i + 1) & 0xFF) as u8`
SeqCounter(n) == (n + 1) % 256

\* The transfer-data request of iteration n.
TransferReq(n) == <<54, SeqCounter(n)>>

Min(a, b) == IF a < b THEN a ELSE b

\* The lengths of the answers to a transfer-data request: too short to hold
\* the 2-byte echo, the echo alone, the echo and what is left of the dump
\* (at most a block), the echo and a full block.
RespLens(bs, remaining) ==
  {1, 2, 2 + Min(bs, IF remaining > 0 THEN remaining ELSE 0), 2 + bs}

\* The page's frame with the button clicked and a folder picked: the save
\* path is stored and the worker thread spawned.  The button is drawn when
\* the frame's copy of the state is done; a click in the frames between the
\* spawn and the thread's first step is not followed.
ClickRead ==
  /\ upc = "idle"
  /\ is_done(read_state)
  /\ wpc /= "spawned"
  /\ save_path' = TRUE
  /\ wpc' = "spawned"
  /\ size' = [address |-> 0, size |-> 0, bs |-> 0]
  /\ got24' = FALSE
  /\ block_count' = 0
  /\ dataLen' = 0
  /\ i' = 0
  /\ exact' = TRUE
  /\ sent' = [upload |-> 0, data |-> 0, exit |-> 0]
  /\ lastReq' = <<>>
  /\ lastRes' = NoExchange
  /\ persisted' = -1
  /\ UNCHANGED <<diagVars, testVars, read_state, prevTag, ecuDump, cfgVars,
                 otherVars>>

\* The page's frame with the button clicked and no folder picked.
ClickNoPath ==
  /\ upc = "idle"
  /\ is_done(read_state)
  /\ wpc /= "spawned"
  /\ SetState(StAborted("User did not select a save path for coredump", ""))
  /\ UNCHANGED <<diagVars, testVars, save_path, wpc, size, got24, block_count,
                 dataLen, i, exact, sent, lastReq, lastRes, persisted, ecuDump,
                 cfgVars, otherVars>>

\* The worker calls nag_c.with_kwp: without a session the closure is not
\* run and the thread ends; with one the closure starts with Prepare.
WorkerEnter ==
  /\ wpc = "spawned"
  /\ IF with_kwp(nag_c, "Ok").invoked = 0
       THEN /\ wpc' = "done"
            /\ lastRes' = Exchange("with_kwp", with_kwp(nag_c, "Ok").result)
            /\ UNCHANGED <<read_state, prevTag>>
       ELSE /\ wpc' = "session"
            /\ SetState(StPrepare)
            /\ UNCHANGED lastRes
  /\ UNCHANGED <<diagVars, testVars, save_path, size, got24, block_count,
                 dataLen, i, exact, sent, lastReq, persisted, ecuDump,
                 cfgVars, otherVars>>

\* The ECU's answer to 0x24 on a coredump of sz bytes.
Info24(sz) == ToLe(DumpAddress) \o ToLe(sz)

\* The button clicked again, and a folder picked, in a frame that still
\* read a done state: the first thread was spawned and has not yet written
\* Prepare.  A second thread is spawned on a clone of the same handle, with
\* the same state cell.
ClickReadAgain ==
  /\ upc = "idle"
  /\ is_done(read_state)
  /\ wpc = "spawned"
  /\ w2 = "none"
  /\ w2' = "spawned"
  /\ UNCHANGED <<diagVars, testVars, dumpVars, cfgVars, setVars, fwVars,
                 identVars, sessVars, rliVars, unitVars, fuseVars, flashVars,
                 writeVars>>

\* The second thread calls nag_c.with_kwp.
TwinEnter ==
  /\ w2 = "spawned"
  /\ IF with_kwp(nag_c, "Ok").invoked = 0
       THEN /\ w2' = "done"
            /\ UNCHANGED <<read_state, prevTag>>
       ELSE /\ w2' = "session"
            /\ SetState(StPrepare)
  /\ UNCHANGED <<diagVars, testVars, save_path, wpc, size, got24, block_count,
                 dataLen, i, exact, sent, lastReq, lastRes, persisted, ecuDump,
                 cfgVars, setVars, fwVars, identVars, sessVars, rliVars,
                 unitVars, fuseVars, flashVars, writeVars>>

\* The second thread's init_flash_mode: set_diagnostic_session_mode.
TwinSession ==
  /\ w2 = "session"
  /\ \/ /\ w2' = "read24"
        /\ UNCHANGED <<read_state, prevTag>>
     \/ \E e \in ReqErrors :
          /\ SetState(StAborted("ECU rejected flash programming mode: ", e))
          /\ w2' = "done"
  /\ UNCHANGED <<diagVars, testVars, save_path, wpc, size, got24, block_count,
                 dataLen, i, exact, sent, lastReq, lastRes, persisted, ecuDump,
                 cfgVars, setVars, fwVars, identVars, sessVars, rliVars,
                 unitVars, fuseVars, flashVars, writeVars>>

\* The second thread's read of 0x24 on an ECU that holds no coredump, where
\* the closure ends with it.
TwinRead24 ==
  /\ w2 = "read24"
  /\ EmptyDump(ecuDump)
  /\ w2' = "done"
  /\ \/ \E e \in ReqErrors \cup {Check24(SubSeq(Info24(ecuDump), 1, 7)).res} :
          SetState(StAborted("ECU rejected flash programming mode: ", e))
     \/ SetState(StCompleted)
  /\ UNCHANGED <<diagVars, testVars, save_path, wpc, size, got24, block_count,
                 dataLen, i, exact, sent, lastReq, lastRes, persisted, ecuDump,
                 cfgVars, setVars, fwVars, identVars, sessVars, rliVars,
                 unitVars, fuseVars, flashVars, writeVars>>

\* The button clicked on a page whose handle is not inside try_reconnect
\* (both run on the UI thread).
ClickReadIdle ==
  /\ hpc["kwp"] = "idle"
  /\ ClickRead

\* try_reconnect on the page's handle while no worker runs: up to the
\* device lookup, and the lookup and rebuild.
PageReconnectTake ==
  /\ wpc \in {"idle", "done", "panicked"}
  /\ hpc["kwp"] = "idle"
  /\ Take("kwp")
  /\ UNCHANGED <<info, endpoint_type, exists, built, linkUp, alive, lostSince,
                 connectAt, call, testVars, appVars>>

PageReconnectConnect ==
  /\ hpc["kwp"] = "connect"
  /\ \E ok \in ConnectResults : Connect("kwp", ok)
  /\ UNCHANGED <<exists, linkUp, torn, call, taken, testVars,
                 dumpVars, cfgVars, setVars, fwVars, identVars, moreVars,
                 logq, logOp>>

\* init_flash_mode: set_diagnostic_session_mode(Reprogramming)?
SetSession ==
  /\ wpc = "session"
  /\ \/ /\ lastRes' = Exchange("session", "Ok")
        /\ wpc' = "read24"
        /\ UNCHANGED <<read_state, prevTag>>
     \/ \E e \in ReqErrors :
          /\ lastRes' = Exchange("session", e)
          /\ SetState(StAborted("ECU rejected flash programming mode: ", e))
          /\ wpc' = "done"
  /\ UNCHANGED <<diagVars, testVars, save_path, size, got24, block_count,
                 dataLen, i, exact, sent, lastReq, persisted, ecuDump,
                 cfgVars, otherVars>>

\* init_flash_mode: read_custom_local_identifier(0x24)?, the length check
\* (the ECU may answer a byte short) and the empty dump; and for (0, 0, 0)
\* the worker's `size.1 == 0x00`.
Read24 ==
  /\ wpc = "read24"
  /\ \/ \E e \in ReqErrors \cup {Check24(SubSeq(Info24(ecuDump), 1, 7)).res} :
          /\ lastRes' = Exchange("read24", e)
          /\ SetState(StAborted("ECU rejected flash programming mode: ", e))
          /\ wpc' = "done"
          /\ UNCHANGED <<size, got24>>
     \/ \E sz \in {Check24(Info24(ecuDump)).size} :
          /\ lastRes' = Exchange("read24", "Ok")
          /\ got24' = TRUE
          /\ IF EmptyDump(sz)
               THEN /\ size' = [address |-> 0, size |-> 0, bs |-> 0]
                    /\ SetState(StCompleted)
                    /\ wpc' = "done"
               ELSE /\ size' = [address |-> Check24(Info24(ecuDump)).address,
                                 size |-> sz, bs |-> 0]
                    /\ wpc' = "upload"
                    /\ UNCHANGED <<read_state, prevTag>>
  /\ UNCHANGED <<diagVars, testVars, save_path, block_count, dataLen, i,
                 exact, sent, lastReq, persisted, ecuDump, cfgVars, otherVars>>

\* init_flash_mode: the request-upload exchange; then the worker's
\* `size.1 == 0x00` and `block_count = size.1 / size.2`, which panics on a
\* block size of 0.
Upload ==
  /\ wpc = "upload"
  /\ sent' = [sent EXCEPT !.upload = @ + 1]
  /\ lastReq' = UploadReq(size.address, size.size)
  /\ \/ \E e \in ReqErrors \cup {CheckUpload(<<117>>).res} :
          /\ lastRes' = Exchange("upload", e)
          /\ SetState(StAborted("ECU rejected flash programming mode: ", e))
          /\ wpc' = "done"
          /\ UNCHANGED <<size, block_count>>
     \/ \E bs \in {CheckUpload(UploadAnswer(b)).bs : b \in BlockSizes(size.size)} :
          /\ lastRes' = Exchange("upload", "Ok")
          /\ size' = [size EXCEPT !.bs = bs]
          /\ IF size.size = 0
               THEN /\ SetState(StCompleted)
                    /\ wpc' = "done"
                    /\ UNCHANGED block_count
               ELSE IF bs = 0
                 THEN /\ wpc' = "panicked"
                      /\ UNCHANGED <<read_state, prevTag, block_count>>
                 ELSE /\ block_count' = BlockCount(size.size, bs)
                      /\ wpc' = IF LoopCond(0, size.size) THEN "loop" ELSE "exit"
                      /\ UNCHANGED <<read_state, prevTag>>
  /\ UNCHANGED <<diagVars, testVars, save_path, got24, dataLen, i, exact,
                 persisted, ecuDump, cfgVars, otherVars>>

\* One iteration of the transfer loop: the transfer-data exchange, the
\* append of `&p[2..]` (a panic when p is shorter), the progress state.
Transfer ==
  /\ wpc = "loop"
  /\ i < MaxBlocks
  /\ sent' = [sent EXCEPT !.data = @ + 1]
  /\ lastReq' = TransferReq(i)
  /\ \/ \E e \in ReqErrors :
          /\ lastRes' = Exchange("data", e)
          /\ SetState(StAborted("ECU rejected transfer data: ", e))
          /\ wpc' = "done"
          /\ UNCHANGED <<dataLen, i, exact>>
     \/ \E len \in RespLens(size.bs, size.size - dataLen) :
          /\ lastRes' = Exchange("data", "Ok")
          /\ IF len < 2
               THEN /\ wpc' = "panicked"
                    /\ UNCHANGED <<read_state, prevTag, dataLen, i, exact>>
               ELSE /\ dataLen' = dataLen + (len - 2)
                    /\ i' = i + 1
                    /\ exact' = (exact /\ len - 2 = Min(size.bs, size.size - dataLen))
                    /\ SetState(StReadingBlock(i' + 1, block_count, dataLen'))
                    /\ wpc' = IF LoopCond(dataLen', size.size)
                                THEN "loop" ELSE "exit"
  /\ UNCHANGED <<diagVars, testVars, save_path, size, got24, block_count,
                 persisted, ecuDump, cfgVars, otherVars>>

\* on_flash_end and the worker's last write: transfer-exit, whose error
\* the worker drops; then dump.elf is created (unwrap) and `&read[20..]`
\* written, a panic when the file cannot be created or fewer than 20 bytes
\* were read; then Completed.
FlashEnd ==
  /\ wpc = "exit"
  /\ sent' = [sent EXCEPT !.exit = @ + 1]
  /\ lastReq' = <<55>>
  /\ \/ \E e \in ReqErrors :
          /\ lastRes' = Exchange("exit", e)
          /\ SetState(StCompleted)
          /\ wpc' = "done"
          /\ UNCHANGED persisted
     \/ /\ lastRes' = Exchange("exit", "Ok")
        /\ wpc' = "panicked"
        /\ UNCHANGED <<read_state, prevTag, persisted>>
     \/ /\ lastRes' = Exchange("exit", "Ok")
        /\ IF dataLen < HeaderLen
             THEN /\ wpc' = "panicked"
                  /\ UNCHANGED <<read_state, prevTag, persisted>>
             ELSE /\ persisted' = dataLen - HeaderLen
                  /\ SetState(StCompleted)
                  /\ wpc' = "done"
  /\ UNCHANGED <<diagVars, testVars, save_path, size, got24, block_count,
                 dataLen, i, exact, ecuDump, cfgVars, otherVars>>

\* ------------------------------------------------------------ configuration
\* BoardType of a decoded TcmEfuseConfig.
BoardTypes == {"Unknown", "V11", "V12", "V13"}

StatusOk(text) == [ok |-> TRUE, text |-> text, err |-> ""]
StatusErr(text, e) == [ok |-> FALSE, text |-> text, err |-> e]

\* The threads that are inside a with_kwp closure: each has a request of
\* its sequence still to send.
InFlight ==
  (IF wpc \in {"session", "read24", "upload", "loop", "exit"}
     THEN {"worker"} ELSE {})
  \cup (IF upc /= "idle" THEN {"ui"} ELSE {})

\* What the page leaves unchanged besides its own fields.
NotThePage == <<diagVars, testVars, dumpVars, setVars, fwVars, identVars,
                sessVars, rliVars, flashVars, twinVars, ecuScn, frames,
                ecuBoard>>

\* The reads of one "Read Configuration": the identifiers read, in order,
\* how each read and its decoding ended, and scn and efuse before the click.
ReadCall(ids, res, s0, e0) == [ids |-> ids, res |-> res, scn0 |-> s0,
                               efuse0 |-> e0]

\* A TcmCoreConfig with these values in the four scaled fields.
CoreConfig(fm, ratio, high, low, drag) ==
  [is_four_matic |-> fm, diff_ratio |-> ratio,
   transfer_case_high_ratio |-> high, transfer_case_low_ratio |-> low,
   engine_drag_torque |-> drag]

\* No "Read Configuration" yet: the page holds no block.
NoRead == ReadCall(<<>>, <<>>, <<FALSE, CoreConfig(0, 0, 0, 0, 0)>>, "None")

\* A with_kwp call of a write, of kind "scn" or "efuse", and its steps.
WriteCall(kind, steps) == [kind |-> kind, calls |-> 1, steps |-> steps]
NoWrite == [kind |-> "none", calls |-> 0, steps |-> <<>>]

\* The second read of the closure is appended to the first.
SecondRead(r, res) ==
  [r EXCEPT !.ids = Append(@, 253), !.res = Append(@, res)]

\* "Read Configuration" clicked: with_kwp, and in the closure the read of
\* 0xFE and its decoding.
ReadConfigFE ==
  /\ upc = "idle"
  /\ IF with_kwp(nag_c, "Ok").invoked = 0
       THEN /\ cfgOp' = Exchange("read", with_kwp(nag_c, "Ok").result)
            /\ rlog' = ReadCall(<<>>, <<>>, <<scn, scnVal>>, efuse)
            /\ UNCHANGED <<scn, scnVal, status, upc>>
       ELSE /\ upc' = "readFD"
            /\ \/ /\ cfgOp' = Exchange("readFE", "Ok")
                  /\ rlog' = ReadCall(<<254>>, <<"Ok">>, <<scn, scnVal>>, efuse)
                  /\ status' = StatusOk("Read OK!")
                  /\ scn' = TRUE
                  /\ scnVal' = ecuScn
               \/ /\ cfgOp' = Exchange("readFE", "unpack")
                  /\ rlog' = ReadCall(<<254>>, <<"unpack">>, <<scn, scnVal>>,
                                      efuse)
                  /\ status' = StatusErr("TCM Config size is invalid", "")
                  /\ UNCHANGED <<scn, scnVal>>
               \/ \E e \in ReqErrors :
                    /\ cfgOp' = Exchange("readFE", e)
                    /\ rlog' = ReadCall(<<254>>, <<e>>, <<scn, scnVal>>, efuse)
                    /\ status' = StatusErr("Error reading TCM configuration: ", e)
                    /\ UNCHANGED <<scn, scnVal>>
  /\ wlog' = NoWrite
  /\ UNCHANGED <<NotThePage, efuse, show_efuse, show_final_warning, efuseRead,
                 efuseReq>>

\* `if tmp.board_ver == BoardType::Unknown { self.show_efuse = true; }`
ShowEfuse(shown, b) == shown \/ b = "Unknown"

\* A status line that a decoded EFUSE block rewrites.
EfuseReadOkShown(st) == StatusOk("Read OK!")

\* The Ok arm of the EFUSE block's decoding assigns show_efuse and efuse,
\* and no status: the line the 0xFE read left stays.
EfuseReadOk(st) == st

\* The closure's read of 0xFD and its decoding; the closure returns Ok(()).
ReadConfigFD ==
  /\ upc = "readFD"
  /\ upc' = "idle"
  /\ \/ \E b \in {ecuBoard} :
          /\ cfgOp' = Exchange("readFD", "Ok")
          /\ rlog' = SecondRead(rlog, "Ok")
          /\ efuse' = b
          /\ efuseRead' = b
          /\ show_efuse' = ShowEfuse(show_efuse, b)
          /\ status' = EfuseReadOk(status)
     \/ /\ cfgOp' = Exchange("readFD", "unpack")
        /\ rlog' = SecondRead(rlog, "unpack")
        /\ status' = StatusErr("TCM EFUSE size is invalid", "")
        /\ UNCHANGED <<efuse, efuseRead, show_efuse>>
     \/ \E e \in ReqErrors :
          /\ cfgOp' = Exchange("readFD", e)
          /\ rlog' = SecondRead(rlog, e)
          /\ status' = StatusErr("Error reading TCM EFUSE configuration: ", e)
          /\ UNCHANGED <<efuse, efuseRead, show_efuse>>
  /\ UNCHANGED <<NotThePage, scn, scnVal, show_final_warning, efuseReq,
                 wlog>>

\* The result of the write's with_kwp is bound to `res` (SCN) or dropped
\* (EFUSE): a failure changes nothing on the page.
WriteFailed(text, e) == UNCHANGED status

\* A closure that goes on to its next step whatever the result of one.
TryIgnored(res, next) == next

\* `step?;` in the closure of a write: the closure goes on to the step
\* next after Ok and returns on an error.
Try(res, next) == IF res = "Ok" THEN next ELSE "idle"

\* What a request can end with.
Results == {"Ok"} \cup ReqErrors

\* A request of a write and its result: req holds the bytes the page
\* builds itself (0x3B and the block identifier, before the packed block).
Step(op, req, res) == [op |-> op, req |-> req, res |-> res]

\* "Write SCN configuration" clicked (the button shows once scn is Some):
\* with_kwp, and in the closure kwp_set_session(Reprogramming)?.
WriteScnSession ==
  /\ upc = "idle"
  /\ scn
  /\ IF with_kwp(nag_c, "Ok").invoked = 0
       THEN /\ cfgOp' = Exchange("scn", with_kwp(nag_c, "Ok").result)
            /\ wlog' = WriteCall("scn", <<>>)
            /\ WriteFailed("SCN write: ", with_kwp(nag_c, "Ok").result)
            /\ UNCHANGED upc
       ELSE \E r \in Results :
              /\ cfgOp' = Exchange("scn-session", r)
              /\ wlog' = WriteCall("scn", <<Step("session", <<>>, r)>>)
              /\ upc' = Try(r, "write")
              /\ WriteFailed("SCN write: ", r)
  /\ rlog' = NoRead
  /\ UNCHANGED <<NotThePage, scn, scnVal, efuse, show_efuse,
                 show_final_warning, efuseRead, efuseReq>>

\* send_byte_array_with_response(&[0x3B, 0xFE, ..])?
WriteScnWrite ==
  /\ upc = "write"
  /\ \E r \in Results :
       /\ cfgOp' = Exchange("scn-write", r)
       /\ wlog' = [wlog EXCEPT !.steps = Append(@, Step("write", <<59, 254>>, r))]
       /\ upc' = Try(r, "reset")
       /\ WriteFailed("SCN write: ", r)
  /\ UNCHANGED <<NotThePage, scn, scnVal, efuse, show_efuse,
                 show_final_warning, efuseRead, efuseReq, rlog>>

\* kwp_reset_ecu(PowerOnReset)?; Ok(())
WriteScnReset ==
  /\ upc = "reset"
  /\ upc' = "idle"
  /\ \E r \in Results :
       /\ cfgOp' = Exchange("scn-reset", r)
       /\ wlog' = [wlog EXCEPT !.steps = Append(@, Step("reset", <<>>, r))]
       /\ WriteFailed("SCN write: ", r)
  /\ UNCHANGED <<NotThePage, scn, scnVal, efuse, show_efuse,
                 show_final_warning, efuseRead, efuseReq, rlog>>

\* The board variants the combo box of the EFUSE form offers.
BoardChoices == {"V11", "V12", "V13"}

\* The EFUSE form is drawn while efuse is Some and show_efuse is set; the
\* user chooses a board variant, which is stored in efuse.board_ver.
SelectBoard ==
  /\ upc = "idle"
  /\ efuse /= "None"
  /\ show_efuse
  /\ \E v \in BoardChoices : efuse' = v
  /\ UNCHANGED <<NotThePage, scn, scnVal, show_efuse, show_final_warning,
                 status, upc, efuseRead, cfgOp, efuseReq,
                 wlog, rlog>>

\* `if self.show_efuse && efuse.board_ver != BoardType::Unknown`: the
\* button "Write EFUSE configuration" is offered.
WriteEfuseOffered ==
  /\ efuse /= "None"
  /\ show_efuse /\ efuse /= "Unknown"

\* "Write EFUSE configuration" clicked: the final warning opens.
ClickWriteEfuse ==
  /\ upc = "idle"
  /\ WriteEfuseOffered
  /\ ~show_final_warning
  /\ show_final_warning' = TRUE
  /\ UNCHANGED <<NotThePage, scn, scnVal, efuse, show_efuse, status, upc,
                 efuseRead, cfgOp, efuseReq,
                 wlog, rlog>>

\* "Take me back" in the final warning.
TakeMeBack ==
  /\ upc = "idle"
  /\ show_final_warning
  /\ show_final_warning' = FALSE
  /\ UNCHANGED <<NotThePage, scn, scnVal, efuse, show_efuse, status, upc,
                 efuseRead, cfgOp, efuseReq,
                 wlog, rlog>>

\* The state a 0x3B 0xFD request was sent in.
EfuseRequest(n) ==
  [sent |-> n, read |-> efuseRead, board_ver |-> efuse,
   confirmed |-> show_final_warning]

\* The steps of the EFUSE write's closure for the results r1, r2, r3 of
\* set session, the write of 0xFD and the reset.
EfuseSteps(r1, r2, r3) ==
  IF Try(r1, "write") = "idle"
    THEN <<Step("session", <<>>, r1)>>
    ELSE IF Try(r2, "reset") = "idle"
      THEN <<Step("session", <<>>, r1), Step("write", <<59, 253>>, r2)>>
      ELSE <<Step("session", <<>>, r1), Step("write", <<59, 253>>, r2),
             Step("reset", <<>>, r3)>>

\* The requests among steps that are the write.
WritesIn(steps) == {k \in 1 .. Len(steps) : steps[k].op = "write"}

\* "Yes, I am sure!" in the final warning: the EFUSE block is packed from
\* self.efuse with today's date, and with_kwp runs set session, the write
\* of 0xFD and the reset, each ending the closure on its error.  An ECU
\* whose block is empty takes the write, one whose block is set refuses it
\* ("This can only be set once!").  The warning closes whatever the result.
ConfirmEfuse ==
  /\ upc = "idle"
  /\ show_final_warning
  /\ efuseReq.sent < MaxWrites
  /\ show_final_warning' = FALSE
  /\ IF with_kwp(nag_c, "Ok").invoked = 0
       THEN /\ cfgOp' = Exchange("efuse", with_kwp(nag_c, "Ok").result)
            /\ wlog' = WriteCall("efuse", <<>>)
            /\ WriteFailed("EFUSE write: ", with_kwp(nag_c, "Ok").result)
            /\ UNCHANGED <<efuseReq, ecuBoard>>
       ELSE \E r1 \in Results, r3 \in Results :
            \E r2 \in IF ecuBoard = "Unknown" THEN Results ELSE ReqErrors :
              LET steps == EfuseSteps(r1, r2, r3)
                  last  == steps[Len(steps)]
              IN  /\ wlog' = WriteCall("efuse", steps)
                  /\ cfgOp' = Exchange("efuse-" \o last.op, last.res)
                  /\ WriteFailed("EFUSE write: ", last.res)
                  /\ efuseReq' = IF WritesIn(steps) = {} THEN efuseReq
                                 ELSE EfuseRequest(efuseReq.sent + 1)
                  /\ ecuBoard' = IF WritesIn(steps) /= {} /\ r2 = "Ok"
                                   THEN efuse ELSE ecuBoard
  /\ UNCHANGED <<diagVars, testVars, dumpVars, setVars, fwVars, identVars,
                 sessVars, rliVars, flashVars, twinVars, ecuScn, frames, scn,
                 scnVal, efuse, show_efuse, upc, efuseRead>>
  /\ rlog' = NoRead

\* ----------------------------------------------------- configuration form
\* 2^k modulo d, and the floor of the binary logarithm of n / d (n, d > 0).
RECURSIVE Pow2Mod(_, _)
Pow2Mod(k, d) == IF k = 0 THEN 1 % d ELSE (2 * Pow2Mod(k - 1, d)) % d

RECURSIVE Log2Floor(_, _)
Log2Floor(n, d) ==
  IF n < d THEN Log2Floor(2 * n, d) - 1
  ELSE IF n >= 2 * d THEN Log2Floor(n, 2 * d) + 1
  ELSE 0

\* The f32 nearest to n / d is M / 2^s with s = 23 - floor(log2(n / d)) and
\* M the nearest integer to n * 2^s / d.  F32Err is d * M - n * 2^s: 0 when
\* n / d is an f32, negative when the f32 is below n / d, positive above.
\* (Half of d is not a remainder for the d in use: 10, 100 and 1000 have an
\* odd factor.)
F32Shift(n, d) == 23 - Log2Floor(n, d)
F32Err(n, d) ==
  LET r == ((n % d) * Pow2Mod(F32Shift(n, d), d)) % d
  IN IF 2 * r <= d THEN 0 - r ELSE d - r

\* format!("{:.p}", raw as f32 / div) with unit = 10^p: the number shown, in
\* units of the last digit.  The f32 quotient is rounded to the nearest
\* such number; where raw / div lies in the middle of two, the side the f32
\* lies on decides, and the even digit when the f32 is the middle itself.
FormatFixed(raw, div, unit) ==
  LET q == (raw * unit) \div div
      rem == (raw * unit) % div
      up == IF 2 * rem /= div THEN 2 * rem > div
            ELSE IF F32Err(raw, div) /= 0 THEN F32Err(raw, div) > 0
            ELSE q % 2 = 1
  IN IF up THEN q + 1 ELSE q

\* `value as u16` of a non-negative f32: cut to an integer, at most u16::MAX.
AsU16(v) == IF v > 65535 THEN 65535 ELSE v

\* buffer.parse::<f32>() of the text n / unit, `* mul` in f32 and `as u16`;
\* mul is a multiple of unit.  The parsed f32 is off n / unit by
\* F32Err / (unit * 2^s), the product is off the integer n * mul / unit by
\* c * F32Err / 2^s with c = mul / unit, and rounds to that integer unless
\* this is more than half the distance of the f32 values there; a product
\* below the integer is cut to the integer before it.
ParseTimes(n, unit, mul) ==
  IF n = 0 THEN 0
  ELSE LET c == mul \div unit
           whole == c * n
           err == F32Err(n, unit)
           half == 2 ^ (Log2Floor(whole, 1) - Log2Floor(n, unit) - 1)
           below == /\ err < 0
                    /\ \/ c * (0 - err) > half
                       \/ /\ whole = 2 ^ Log2Floor(whole, 1)
                          /\ 2 * c * (0 - err) > half
       IN AsU16(IF below THEN whole - 1 ELSE whole)

\* One frame's pass over a field shown as raw / div with the last digit
\* 1 / unit: the text is made, offered for editing, parsed and stored.
Redraw(raw, div, unit) == ParseTimes(FormatFixed(raw, div, unit), unit, div)

\* A frame draws the form of a configuration that is loaded, and the user
\* edits nothing.  The transfer case rows are drawn for a 4Matic only.
ShowFrame ==
  /\ upc = "idle"
  /\ scn
  /\ frames < MaxFrames
  /\ frames' = frames + 1
  /\ scnVal' =
       [scnVal EXCEPT
          !.diff_ratio = Redraw(@, 1000, 100),
          !.transfer_case_high_ratio =
             IF scnVal.is_four_matic = 1 THEN Redraw(@, 1000, 100) ELSE @,
          !.transfer_case_low_ratio =
             IF scnVal.is_four_matic = 1 THEN Redraw(@, 1000, 100) ELSE @,
          !.engine_drag_torque = Redraw(@, 10, 10)]
  /\ UNCHANGED <<diagVars, testVars, dumpVars, cfgVars, setVars, fwVars,
                 identVars, sessVars, rliVars, fuseVars, tailVars, ecuScn>>

\* A 2.87 differential, 1.0 and 2.64 in the transfer case, 40.0 Nm of drag.
SampleConfig == CoreConfig(0, 2870, 1000, 2640, 400)

\* The configurations an ECU holds: the sample, and every u16 in the
\* differential ratio and the drag torque of a car with or without 4Matic,
\* the transfer case ratios following the differential ratio.
CoreConfigs ==
  {SampleConfig} \union
  {CoreConfig(fm, raw, raw, 65535 - raw, raw) :
     fm \in {0, 1}, raw \in 0 .. 65535}

InitUnits ==
  /\ ecuScn \in CoreConfigs
  /\ scnVal = CoreConfig(0, 0, 0, 0, 0)
  /\ frames = 0

\* ------------------------------------------------------- advanced settings
\* The records of the page in the order its worker reads them.
SettingOrder == <<"Tcc", "Sol", "Sbs", "Nag", "Prm", "Adp", "Ets">>
SettingIds == {SettingOrder[k] : k \in 1 .. Len(SettingOrder)}

\* The contents of a record; DefaultVal is what a reset leaves in the ECU.
DefaultVal == 0
Values == DefaultVal .. MaxVal

\* DataState<T>
Unint == [st |-> "Unint", val |-> DefaultVal, err |-> ""]
LoadOk(v) == [st |-> "LoadOk", val |-> v, err |-> ""]
LoadErr(e) == [st |-> "LoadErr", val |-> DefaultVal, err |-> e]

\* PageLoadState
Waiting(text) == [tag |-> "Waiting", text |-> text]
PageOk == [tag |-> "Ok", text |-> ""]
PageErr(e) == [tag |-> "Err", text |-> e]

\* TcuSettingsWrapper::loaded_ok
loaded_ok(r) == r.st = "LoadOk"

\* The records whose load failed (the page lists them under "Load status").
FailedRecords(rs) == {id \in SettingIds : rs[id].st = "LoadErr"}

\* The worker's first with_kwp: without a session its result is the
\* not-open error; with one the closure reports "Setting TCU diag mode".
SettingsEnter ==
  /\ spc = "spawned"
  /\ IF with_kwp(nag_c, "Ok").invoked = 0
       THEN /\ ready' = PageErr(with_kwp(nag_c, "Ok").result)
            /\ spc' = "done"
       ELSE /\ ready' = Waiting("Setting TCU diag mode")
            /\ spc' = "session"
  /\ kwpOp' = <<>>
  /\ UNCHANGED <<diagVars, testVars, dumpVars, cfgVars, fwVars, identVars,
                 sessVars, moreVars,
                 rec, open_settings,
                 sidx, ecuSet, notified, edits>>

\* kwp_set_session(0x93) in that closure, and the match on its result.
SettingsSession ==
  /\ spc = "session"
  /\ \/ /\ kwpOp' = <<Exchange("session", "Ok")>>
        /\ ready' = Waiting("Reading TCC Settings")
        /\ spc' = "read"
     \/ \E e \in ReqErrors :
          /\ kwpOp' = <<Exchange("session", e)>>
          /\ ready' = PageErr(e)
          /\ spc' = "done"
  /\ UNCHANGED <<diagVars, testVars, dumpVars, cfgVars, fwVars, identVars,
                 sessVars, moreVars,
                 rec, open_settings,
                 sidx, ecuSet, notified, edits>>

\* A read whose failure leaves the record as it was created.
ReadResultSkipped(r, v) == IF r = "Ok" THEN LoadOk(v) ELSE Unint

\* read_scn_settings, the value stored for the result r of the read of a
\* record the ECU holds as v: "Ok" is an answer that unpack_settings
\* decodes, every other result is an error, kept as its text.
ReadResult(r, v) == IF r = "Ok" THEN LoadOk(v) ELSE LoadErr(r)

\* What with_kwp and unpack_settings can return for a settings read.
ReadOutcomes == {"Ok", "unpack"} \cup ReqErrors

\* read_scn_settings of the next record; an answer shorter than 2 bytes
\* panics in `&res[2..]`.  After the last record the page becomes Ok.  One
\* load is followed with at most one failing read.
SettingsRead ==
  /\ spc = "read"
  /\ \/ /\ kwpOp' = <<Exchange("read", "Ok")>>
        /\ spc' = "panicked"
        /\ UNCHANGED <<rec, sidx, ready>>
     \/ \E r \in ReadOutcomes :
          /\ r /= "Ok" => FailedRecords(rec) = {}
          /\ kwpOp' = <<Exchange("read", r)>>
          /\ rec' = [rec EXCEPT ![SettingOrder[sidx + 1]] =
                       ReadResult(r, ecuSet[SettingOrder[sidx + 1]])]
          /\ sidx' = sidx + 1
          /\ IF sidx + 1 = Len(SettingOrder)
               THEN ready' = PageOk /\ spc' = "done"
               ELSE UNCHANGED <<ready, spc>>
  /\ UNCHANGED <<diagVars, testVars, dumpVars, cfgVars, fwVars, identVars,
                 sessVars, moreVars,
                 open_settings, ecuSet,
                 notified, edits>>

\* A frame that leaves the record uninitialized.
StoreBackCleared(id, v) == rec' = [rec EXCEPT ![id] = Unint]

\* make_settings_ui, its last statement: the record is stored again from
\* the frame's copy.
StoreBack(id, v) == rec' = [rec EXCEPT ![id] = LoadOk(v)]

\* The page draws a record only when it is Ok and the record is open.
Shown(id) ==
  /\ ready.tag = "Ok"
  /\ open_settings = id
  /\ loaded_ok(rec[id])
  /\ edits < MaxEdits

\* A frame in which the user chooses a record among those loaded.
SelectSetting ==
  /\ ready.tag = "Ok"
  /\ \E id \in SettingIds :
       /\ loaded_ok(rec[id])
       /\ open_settings' = id
       /\ StoreBack(id, rec[id].val)
  /\ kwpOp' = <<>>
  /\ UNCHANGED <<diagVars, testVars, dumpVars, cfgVars, fwVars, identVars,
                 sessVars, moreVars,
                 ready, spc, sidx,
                 ecuSet, notified, edits>>

\* A frame in which the user changes a value in the grid.
EditValue ==
  /\ \E id \in SettingIds, v \in Values :
       /\ Shown(id)
       /\ StoreBack(id, v)
  /\ kwpOp' = <<>>
  /\ edits' = edits + 1
  /\ UNCHANGED <<diagVars, testVars, dumpVars, cfgVars, fwVars, identVars,
                 sessVars, moreVars,
                 ready, open_settings,
                 spc, sidx, ecuSet, notified>>

\* "Write settings": the packed record is written to the ECU.  The toast of
\* an Ok is a success or, for a record that needs a restart, a warning; both
\* are "Success" here.
WriteSettings ==
  /\ \E id \in SettingIds :
       /\ Shown(id)
       /\ StoreBack(id, rec[id].val)
       /\ IF with_kwp(nag_c, "Ok").invoked = 0
            THEN /\ kwpOp' = <<>>
                 /\ notified' = "Error"
                 /\ UNCHANGED ecuSet
            ELSE \/ /\ kwpOp' = <<Exchange("write", "Ok")>>
                    /\ ecuSet' = [ecuSet EXCEPT ![id] = rec[id].val]
                    /\ notified' = "Success"
                 \/ \E e \in ReqErrors :
                      /\ kwpOp' = <<Exchange("write", e)>>
                      /\ notified' = "Error"
                      /\ UNCHANGED ecuSet
  /\ edits' = edits + 1
  /\ UNCHANGED <<diagVars, testVars, dumpVars, cfgVars, fwVars, identVars,
                 sessVars, moreVars,
                 ready, open_settings,
                 spc, sidx>>

\* "Reset to TCU Default": the reset is written, and after its Ok the
\* record is read again and taken over when the read and its decoding
\* succeed.
ResetSettings ==
  /\ \E id \in SettingIds :
       /\ Shown(id)
       /\ IF with_kwp(nag_c, "Ok").invoked = 0
            THEN /\ kwpOp' = <<>>
                 /\ notified' = "Error"
                 /\ StoreBack(id, rec[id].val)
                 /\ UNCHANGED ecuSet
            ELSE \/ \E e \in ReqErrors :
                      /\ kwpOp' = <<Exchange("write", e)>>
                      /\ notified' = "Error"
                      /\ StoreBack(id, rec[id].val)
                      /\ UNCHANGED ecuSet
                 \/ /\ notified' = "Success"
                    /\ ecuSet' = [ecuSet EXCEPT ![id] = DefaultVal]
                    /\ \E r \in ReadOutcomes :
                         /\ kwpOp' = <<Exchange("write", "Ok"),
                                       Exchange("read", r)>>
                         /\ StoreBack(id, IF r = "Ok" THEN DefaultVal
                                                      ELSE rec[id].val)
  /\ edits' = edits + 1
  /\ UNCHANGED <<diagVars, testVars, dumpVars, cfgVars, fwVars, identVars,
                 sessVars, moreVars,
                 ready, open_settings,
                 spc, sidx>>

\* "Save to YML" with a file chosen.
SaveYml ==
  /\ \E id \in SettingIds :
       /\ Shown(id)
       /\ StoreBack(id, rec[id].val)
  /\ kwpOp' = <<>>
  /\ notified' = "Success"
  /\ edits' = edits + 1
  /\ UNCHANGED <<diagVars, testVars, dumpVars, cfgVars, fwVars, identVars,
                 sessVars, moreVars,
                 ready, open_settings,
                 spc, sidx, ecuSet>>

\* "Load from YML" with a file chosen: its settings are taken over when it
\* parses.
LoadYml ==
  /\ \E id \in SettingIds :
       /\ Shown(id)
       /\ \/ \E v \in Values :
               /\ StoreBack(id, v)
               /\ notified' = "Success"
          \/ /\ StoreBack(id, rec[id].val)
             /\ notified' = "Error"
  /\ kwpOp' = <<>>
  /\ edits' = edits + 1
  /\ UNCHANGED <<diagVars, testVars, dumpVars, cfgVars, fwVars, identVars,
                 sessVars, moreVars,
                 ready, open_settings,
                 spc, sidx, ecuSet>>

\* TcuAdvSettingsUi::new: every record Unint, the worker spawned.
InitSettings ==
  /\ ready = Waiting("Initializing")
  /\ rec = [id \in SettingIds |-> Unint]
  /\ open_settings = "None"
  /\ spc = "spawned"
  /\ sidx = 0
  /\ ecuSet \in [SettingIds -> Values]
  /\ notified = "none"
  /\ kwpOp = <<>>
  /\ edits = 0

\* ----------------------------------------------------------------- firmware
\* n bytes of value b.
Filler(n, b) == [k \in 1 .. n |-> b]

\* A file of p filler bytes, the magic or nothing, and t more filler bytes.
Image(p, b, magic, t) ==
  Filler(p, b) \o (IF magic THEN HEADER_MAGIC ELSE <<>>) \o Filler(t, b)

\* The files load_binary is tried on: a path that cannot be opened, and
\* files with the magic, or without it, behind 0 .. MaxOffset bytes and
\* before as many bytes as end the file at, just before, or just after a
\* full header.  The filler is 0x00 or the first byte of the magic.
FillBytes == {0, HEADER_MAGIC[1]}
Tails == {0, HEADER_SIZE - Len(HEADER_MAGIC) - 1, HEADER_SIZE - Len(HEADER_MAGIC),
          HEADER_SIZE - Len(HEADER_MAGIC) + 1, HEADER_SIZE}
FirmwareFiles ==
  {[exists |-> FALSE, bytes |-> <<>>]}
  \cup {[exists |-> TRUE, bytes |-> Image(p, b, m, t)] :
          p \in 0 .. MaxOffset, b \in FillBytes, m \in BOOLEAN, t \in Tails}

\* `tmp.len() < HEADER_MAGIC.len() || header_start_idx > 50`
ScanEnds(len, idx) == len - idx < Len(HEADER_MAGIC) \/ idx > ScanLimit

\* `tmp[..HEADER_MAGIC.len()] == HEADER_MAGIC`
MagicAt(buf, idx) == SubSeq(buf, idx + 1, idx + Len(HEADER_MAGIC)) = HEADER_MAGIC

\* The loop of load_binary from header_start_idx = idx: the offset it
\* breaks at, or -1 for its return of NotValid.
RECURSIVE FindHeader(_, _)
FindHeader(buf, idx) ==
  IF ScanEnds(Len(buf), idx) THEN -1
  ELSE IF MagicAt(buf, idx) THEN idx
  ELSE FindHeader(buf, idx + 1)

\* The negation of `buf[header_start_idx..].len() < HEADER_SIZE`.
HeaderFits(len, idx) == len - idx >= HEADER_SIZE

FwNotValid == [tag |-> "NotValid", text |-> "Could not find header magic",
               start |-> -1, magic |-> <<>>, rawLen |-> 0]
FwIoError == [FwNotValid EXCEPT !.tag = "IoError", !.text = ""]
\* Ok(Firmware { raw: buf, header }): the header is the HEADER_SIZE bytes
\* from the offset found, of which the magic field is kept here.
FwOk(buf, idx) ==
  [tag |-> "Ok", text |-> "", start |-> idx,
   magic |-> SubSeq(buf, idx + 1, idx + Len(HEADER_MAGIC)), rawLen |-> Len(buf)]

\* align_of::<FirmwareHeader>(): the struct is repr(Rust) and holds u32
\* fields (derive(PackedStruct) adds the pack/unpack impl, no repr).
HeaderAlign == 4

\* `std::ptr::read(buf[header_start_idx..].as_ptr() as *const _)` needs a
\* pointer aligned for FirmwareHeader.  The buffer of the Vec<u8> comes
\* from the system allocator, aligned to 8 bytes or more, so the pointer
\* is aligned exactly when the offset is a multiple of HeaderAlign.
AlignedRead(idx) == idx % HeaderAlign = 0

\* What a read through a misaligned pointer, undefined behaviour, comes to:
\* the bytes are copied (builds without the checks of unsafe
\* preconditions), or the process is aborted with "ptr::read requires
\* that the pointer argument is aligned and non-null" (builds with debug
\* assertions).
UbOutcomes == {"read", "abort"}
FwAbort == [FwNotValid EXCEPT !.tag = "Abort",
              !.text = "ptr::read requires that the pointer argument is aligned"]

\* The last byte offset (exclusive) that the scan from idx slices for a
\* comparison with the magic: `tmp[..HEADER_MAGIC.len()]`.
RECURSIVE ScanTop(_, _)
ScanTop(buf, idx) ==
  IF ScanEnds(Len(buf), idx) THEN 0
  ELSE IF MagicAt(buf, idx) THEN idx + Len(HEADER_MAGIC)
  ELSE LET rest == ScanTop(buf, idx + 1)
       IN IF rest > idx + Len(HEADER_MAGIC) THEN rest
          ELSE idx + Len(HEADER_MAGIC)

\* load_binary; ub is the outcome of the header's read where it is
\* undefined behaviour.
load_binary(file, ub) ==
  IF ~file.exists THEN FwIoError
  ELSE LET idx == FindHeader(file.bytes, 0) IN
    IF idx < 0 THEN FwNotValid
    ELSE IF ~HeaderFits(Len(file.bytes), idx) THEN FwNotValid
    ELSE IF ~AlignedRead(idx) /\ ub = "abort" THEN FwAbort
    ELSE FwOk(file.bytes, idx)

\* A caller loads the file.
LoadBinary ==
  /\ \E ub \in UbOutcomes : fwResult' = load_binary(fwFile, ub)
  /\ UNCHANGED <<diagVars, testVars, dumpVars, cfgVars, setVars, identVars,
                 sessVars, moreVars, fwFile>>

InitFirmware ==
  /\ fwFile \in FirmwareFiles
  /\ fwResult = [FwNotValid EXCEPT !.tag = "none", !.text = ""]

\* ------------------------------------------------------------ identification
\* u8 and u16.
Bytes == 0 .. 255
Words == 0 .. 65535

\* EgsMode
EGS51 == [tag |-> "EGS51", code |-> 0]
EGS52 == [tag |-> "EGS52", code |-> 0]
EGS53 == [tag |-> "EGS53", code |-> 0]
Unknown(c) == [tag |-> "Unknown", code |-> c]

\* A decoding with one variant per code.
EgsModeDistinct(c) ==
  IF c = 593 THEN EGS51
  ELSE IF c = 594 THEN EGS52
  ELSE IF c = 595 THEN EGS53
  ELSE Unknown(c)

\* impl From<u16> for EgsMode: 0x0251, 0x0252, 0x0253, and the rest.
EgsModeFrom(c) ==
  IF c = 593 THEN EGS51
  ELSE IF c = 594 THEN EGS51
  ELSE IF c = 595 THEN EGS51
  ELSE Unknown(c)

\* A table that looks at the year only.
from_date_by_year(w, y) ==
  IF y = 21 THEN "OnePointOne"
  ELSE IF y = 22 THEN "OnePointTwo"
  ELSE "Unknown"

\* PCBVersion::from_date
from_date(w, y) ==
  IF w = 49 /\ y = 21 THEN "OnePointOne"
  ELSE IF w = 27 /\ y = 22 THEN "OnePointTwo"
  ELSE IF w = 49 /\ y = 22 THEN "OnePointThree"
  ELSE "Unknown"

\* A byte taken as a binary number.
bcd_as_binary(u) == u

\* bcd_decode_to_int: `10 * (u as u32 / 16) + (u as u32 % 16)`
bcd_decode_to_int(u) == 10 * (u \div 16) + (u % 16)

\* An IdentData whose board version is looked up with the software's
\* build date.
IdentDataBySw(ident) ==
  [egs_mode   |-> EgsModeFrom(ident.info_id),
   board_ver  |-> from_date(bcd_decode_to_int(ident.ecu_sw_build_week),
                            bcd_decode_to_int(ident.ecu_sw_build_year)),
   manf_day   |-> bcd_decode_to_int(ident.ecu_production_day),
   manf_month |-> bcd_decode_to_int(ident.ecu_production_month),
   manf_year  |-> bcd_decode_to_int(ident.ecu_production_year),
   hw_week    |-> bcd_decode_to_int(ident.ecu_hw_build_week),
   hw_year    |-> bcd_decode_to_int(ident.ecu_hw_build_year),
   sw_week    |-> bcd_decode_to_int(ident.ecu_sw_build_week),
   sw_year    |-> bcd_decode_to_int(ident.ecu_sw_build_year)]

\* The IdentData query_ecu_data builds from a DaimlerEcuIdent.
IdentData(ident) ==
  [egs_mode   |-> EgsModeFrom(ident.info_id),
   board_ver  |-> from_date(bcd_decode_to_int(ident.ecu_hw_build_week),
                            bcd_decode_to_int(ident.ecu_hw_build_year)),
   manf_day   |-> bcd_decode_to_int(ident.ecu_production_day),
   manf_month |-> bcd_decode_to_int(ident.ecu_production_month),
   manf_year  |-> bcd_decode_to_int(ident.ecu_production_year),
   hw_week    |-> bcd_decode_to_int(ident.ecu_hw_build_week),
   hw_year    |-> bcd_decode_to_int(ident.ecu_hw_build_year),
   sw_week    |-> bcd_decode_to_int(ident.ecu_sw_build_week),
   sw_year    |-> bcd_decode_to_int(ident.ecu_sw_build_year)]

IdentNone == [tag |-> "none", err |-> "", data |-> <<>>]
IdentErr(e) == [tag |-> "Err", err |-> e, data |-> <<>>]
IdentOk(d) == [tag |-> "Ok", err |-> "", data |-> d]

\* query_ecu_data: with_kwp, read_daimler_identification()? and the
\* IdentData of its answer.
QueryEcuData ==
  /\ IF with_kwp(nag_c, "Ok").invoked = 0
       THEN identOut' = IdentErr(with_kwp(nag_c, "Ok").result)
       ELSE \/ identOut' = IdentOk(IdentData(identIn))
            \/ \E e \in ReqErrors : identOut' = IdentErr(e)
  /\ UNCHANGED <<diagVars, testVars, dumpVars, cfgVars, setVars, fwVars,
                 sessVars, moreVars, identIn>>

\* An identification of a board built in week 0x49 of year 0x21, produced
\* on 15.06.23, with software of week 0x40 of year 0x24 that reports 0x0251.
SampleIdent ==
  [info_id |-> 593,
   ecu_hw_build_week |-> 73, ecu_hw_build_year |-> 33,
   ecu_production_day |-> 21, ecu_production_month |-> 6,
   ecu_production_year |-> 35,
   ecu_sw_build_week |-> 64, ecu_sw_build_year |-> 36]

\* Year bytes next to the table's years: 0x21, 0x22, 0x23, the bytes that
\* decode to 21 and 22 with a second nibble above 9 (0x1B, 0x1C), the
\* binary 21 and 22, 0x00 and 0xFF.
YearBytes == {33, 34, 35, 27, 28, 21, 22, 0, 255}

\* The identifications the ECU answers with: every build week with each of
\* these years, and every 16-bit variant code.
Idents ==
  {[SampleIdent EXCEPT !.ecu_hw_build_week = w, !.ecu_hw_build_year = y] :
     w \in Bytes, y \in YearBytes}
  \cup {[SampleIdent EXCEPT !.info_id = c] : c \in Words}

InitIdent ==
  /\ identIn \in Idents
  /\ identOut = IdentNone

\* ---------------------------------------------------------------- telemetry
\* RecordIdents (0x20 .. 0x27) and the LocalRecordData variant query_ecu
\* binds to each.
RecordIdents == {32, 33, 34, 35, 37, 39}

VariantOf(id) ==
  CASE id = 32 -> "Sensors"
    [] id = 33 -> "Solenoids"
    [] id = 34 -> "Canbus"
    [] id = 35 -> "SysUsage"
    [] id = 37 -> "Pressures"
    [] id = 39 -> "ShiftMonitorLive"

\* A field of a packed struct: its width in bytes, whether it is signed,
\* and for an enum field the bytes that name a variant.
U8 == [w |-> 1, signed |-> FALSE, enum |-> {}]
U16 == [w |-> 2, signed |-> FALSE, enum |-> {}]
U32 == [w |-> 4, signed |-> FALSE, enum |-> {}]
I16 == [w |-> 2, signed |-> TRUE, enum |-> {}]
EnumU8(variants) == [w |-> 1, signed |-> FALSE, enum |-> variants]

ShifterPosition == (0 .. 12) \cup {255}
PaddlePosition == (0 .. 3) \cup {255}
TorqueReqType == 0 .. 6

\* The structs of the six records, field by field.
DataGearboxSensors == <<U16, U16, U16, U16, U16, U32, U8, U16>>
DataSolenoids == [k \in 1 .. 16 |-> U16]
DataCanDump ==
  <<U8, U16, U16, U16, U16, U16, U16, U8, EnumU8(ShifterPosition),
    EnumU8(PaddlePosition), U16, U16, U16, EnumU8(TorqueReqType),
    I16, I16, I16>>
DataSysUsage == <<U16, U16, U32, U32, U32, U32, U32>>
DataPressures == [k \in 1 .. 6 |-> U16]
DataShiftManager == <<U16, U16, U16, U8, U16, U16, U16, U16, U16, U8, U8>>

Layout(id) ==
  CASE id = 32 -> DataGearboxSensors
    [] id = 33 -> DataSolenoids
    [] id = 34 -> DataCanDump
    [] id = 35 -> DataSysUsage
    [] id = 37 -> DataPressures
    [] id = 39 -> DataShiftManager

\* The fields of DataCanDump by position.
CanFields ==
  [pedal_position |-> 1, min_torque_ms |-> 2, max_torque_ms |-> 3,
   static_torque |-> 4, driver_torque |-> 5, left_rear_rpm |-> 6,
   right_rear_rpm |-> 7, shift_profile_pressed |-> 8,
   selector_position |-> 9, paddle_position |-> 10, engine_rpm |-> 11,
   fuel_flow |-> 12, egs_req_torque |-> 13, egs_torque_req_type |-> 14,
   engine_iat_temp |-> 15, engine_oil_temp |-> 16,
   engine_coolant_temp |-> 17]

\* The bytes the first k fields of a layout take; the size of the struct
\* is that of all its fields.
RECURSIVE BytesBefore(_, _)
BytesBefore(layout, k) ==
  IF k = 0 THEN 0 ELSE layout[k].w + BytesBefore(layout, k - 1)

PackedSize(layout) == BytesBefore(layout, Len(layout))

\* The w bytes behind offset off, least significant byte first.
RECURSIVE LsbFirst(_, _, _)
LsbFirst(buf, off, w) ==
  IF w = 0 THEN 0 ELSE buf[off + 1] + 256 * LsbFirst(buf, off + 1, w - 1)

\* The value of field k of the struct unpacked from buf.
FieldValue(layout, buf, k) ==
  LET raw == LsbFirst(buf, BytesBefore(layout, k - 1), layout[k].w)
  IN IF layout[k].signed /\ raw >= 32768 THEN raw - 65536 ELSE raw

UnpackErr == [ok |-> FALSE, fields |-> <<>>]

\* An unpack that reads what is there and takes the rest as zero.
unpack_padded(layout, buf) ==
  [ok |-> TRUE,
   fields |-> [k \in 1 .. Len(layout) |->
                 IF BytesBefore(layout, k) <= Len(buf)
                   THEN FieldValue(layout, buf, k) ELSE 0]]

\* T::unpack_from_slice: the slice has to have the size of the struct and
\* every enum field has to name a variant.
unpack_from_slice(layout, buf) ==
  IF Len(buf) /= PackedSize(layout) THEN UnpackErr
  ELSE IF \E k \in 1 .. Len(layout) :
            /\ layout[k].enum /= {}
            /\ FieldValue(layout, buf, k) \notin layout[k].enum
    THEN UnpackErr
  ELSE [ok |-> TRUE,
        fields |-> [k \in 1 .. Len(layout) |-> FieldValue(layout, buf, k)]]

RliNone == [tag |-> "none", err |-> "", variant |-> "", fields |-> <<>>]
RliErr(e) == [RliNone EXCEPT !.tag = "Err", !.err = e]
RliOk(variant, fields) ==
  [RliNone EXCEPT !.tag = "Ok", !.variant = variant, !.fields = fields]

\* read_struct: every error of the unpacking becomes InvalidResponseLength.
read_struct(layout, buf) ==
  IF unpack_from_slice(layout, buf).ok
    THEN [ok |-> TRUE, fields |-> unpack_from_slice(layout, buf).fields,
          err |-> ""]
    ELSE [ok |-> FALSE, fields |-> <<>>, err |-> "InvalidResponseLength"]

\* `*self as u8`: the identifier query_ecu reads.
ReadIdOf(id) == id

\* RecordIdents::query_ecu on the answer ans of the ECU.
query_ecu(id, ans) ==
  IF ans.res /= "Ok" THEN RliErr(ans.res)
  ELSE IF read_struct(Layout(id), ans.bytes).ok
    THEN RliOk(VariantOf(id), read_struct(Layout(id), ans.bytes).fields)
    ELSE RliErr(read_struct(Layout(id), ans.bytes).err)

\* A poll of the record.
QueryEcu ==
  /\ rliReads' = <<ReadIdOf(rliId)>>
  /\ rliOut' = query_ecu(rliId, rliEcu)
  /\ rliView' = [shown |-> FALSE, table |-> <<>>, chart |-> <<>>]
  /\ UNCHANGED <<diagVars, testVars, dumpVars, cfgVars, setVars, fwVars,
                 identVars, sessVars, unitVars, fuseVars, tailVars, rliId,
                 rliEcu>>

\* A torque in quarters of a Nm: `raw as f32 / 4.0 - 500.0`.
TorqueNm(raw) == raw - 2000

\* format!("{:.1}", x) of x = q / 4: the tenths it prints, a tie going to the
\* even digit.
Tenths(q) ==
  LET m == IF q < 0 THEN 0 - q ELSE q
      t == (10 * m) \div 4
      r == (10 * m) % 4
      up == IF r > 2 \/ (r = 2 /\ t % 2 = 1) THEN t + 1 ELSE t
  IN IF q < 0 THEN 0 - up ELSE up

\* A cell of the table: the red "Signal not available", or a text.
NotAvailable == [na |-> TRUE, text |-> "Signal not available", val |-> 0]
Cell(text, val) == [na |-> FALSE, text |-> text, val |-> val]

\* The cell of a torque field of DataCanDump::to_table.
TorqueCell(raw) ==
  IF raw = 65535 THEN NotAvailable ELSE Cell("Nm", Tenths(TorqueNm(raw)))

\* DataCanDump::to_table, the torque rows; the torque request is printed
\* with `{}`, in full (here in quarters of a Nm), the others in tenths.
CanTable(f) ==
  [min_torque_ms |-> TorqueCell(f[CanFields.min_torque_ms]),
   max_torque_ms |-> TorqueCell(f[CanFields.max_torque_ms]),
   static_torque |-> TorqueCell(f[CanFields.static_torque]),
   driver_torque |-> TorqueCell(f[CanFields.driver_torque]),
   egs_req_torque |->
     IF f[CanFields.egs_torque_req_type] = 0
       THEN Cell("None", 0)
       ELSE Cell("Nm (TY)", TorqueNm(f[CanFields.egs_req_torque]))]

\* DataCanDump::to_chart_data: `if x == u16::MAX { 0.0 } else { x / 4 - 500 }`
ChartTorque(raw) == IF raw = 65535 THEN 0 ELSE TorqueNm(raw)

CanChart(f) ==
  [min_torque_ms |-> ChartTorque(f[CanFields.min_torque_ms]),
   static_torque |-> ChartTorque(f[CanFields.static_torque]),
   driver_torque |-> ChartTorque(f[CanFields.driver_torque]),
   egs_req_torque |->
     IF f[CanFields.egs_req_torque] = 65535
         \/ f[CanFields.egs_torque_req_type] = 0
       THEN 0 ELSE TorqueNm(f[CanFields.egs_req_torque])]

\* The page shows the Canbus record it got: to_table and get_chart_data.
ShowCanbus ==
  /\ rliOut.tag = "Ok"
  /\ rliOut.variant = "Canbus"
  /\ ~rliView.shown
  /\ rliView' = [shown |-> TRUE, table |-> CanTable(rliOut.fields),
                 chart |-> CanChart(rliOut.fields)]
  /\ UNCHANGED <<diagVars, testVars, dumpVars, cfgVars, setVars, fwVars,
                 identVars, sessVars, unitVars, fuseVars, tailVars, rliId,
                 rliEcu, rliReads, rliOut>>

\* The bytes of a value of w bytes, least significant first, and of a
\* struct with these field values.
LsbBytes(v, w) == [j \in 1 .. w |-> (v \div (256 ^ (j - 1))) % 256]

RECURSIVE PackFrom(_, _, _)
PackFrom(layout, values, k) ==
  IF k > Len(layout) THEN <<>>
  ELSE LsbBytes(values[k], layout[k].w) \o PackFrom(layout, values, k + 1)

\* The raw torques the ECU reports: -500 Nm, just below 0 Nm, 0 Nm, the
\* largest value and the sentinel.
TorqueRaws == {0, 1999, 2000, 65534, 65535}

\* The Canbus records the ECU reports: idle values, with these torques, a
\* torque request or none, and a selector byte that may name no position.
CanRecords ==
  {[k \in 1 .. Len(DataCanDump) |->
      CASE k = CanFields.min_torque_ms -> a
        [] k = CanFields.static_torque -> b
        [] k = CanFields.egs_req_torque -> c
        [] k = CanFields.egs_torque_req_type -> ty
        [] k = CanFields.selector_position -> sel
        [] OTHER -> 0] :
     a \in TorqueRaws, b \in TorqueRaws, c \in TorqueRaws, ty \in {0, 1, 7},
     sel \in {0, 13, 255}}

\* The answers to the read of identifier id: an error, or a payload of the
\* struct's size, one byte less, one byte more or no byte, of bytes 0x00 or
\* 0x01; and for 0x22 the records above.
RliAnswers(id) ==
  {[res |-> e, bytes |-> <<>>] : e \in ReqErrors}
  \cup {[res |-> "Ok", bytes |-> Filler(n, b)] :
          n \in {0, PackedSize(Layout(id)) - 1, PackedSize(Layout(id)),
                 PackedSize(Layout(id)) + 1},
          b \in {0, 1}}
  \cup (IF id = 34
          THEN {[res |-> "Ok", bytes |-> PackFrom(DataCanDump, r, 1)] :
                  r \in CanRecords}
          ELSE {})

InitRli ==
  /\ rliId \in RecordIdents
  /\ rliEcu \in RliAnswers(rliId)
  /\ rliReads = <<>>
  /\ rliOut = RliNone
  /\ rliView = [shown |-> FALSE, table |-> <<>>, chart |-> <<>>]

\* ---------------------------------------------------------- specification
\* After Nag52Diag::new(AdapterHw::Usb(dev)) of the test returned Ok.
InitDiag ==
  /\ \E d \in Devices :
       /\ info = [h \in Handles |-> d.name]
       /\ endpoint_type = [h \in Handles |-> d.ty]
  /\ endpoint = [h \in Handles |-> IF h = "kwp" THEN 1 ELSE None]
  /\ server = [h \in Handles |-> IF h = "kwp" THEN 1 ELSE None]
  /\ exists = {"kwp"}
  /\ built = 1
  /\ linkUp = TRUE
  /\ alive = {1}
  /\ torn = {}
  /\ lostSince = [h \in Handles |-> FALSE]
  /\ justOk = [h \in Handles |-> FALSE]
  /\ hpc = [h \in Handles |-> "idle"]
  /\ taken = [h \in Handles |-> [gen |-> None, name |-> "", ty |-> ""]]
  /\ connectAt = [made |-> FALSE, h |-> "kwp", name |-> "", ty |-> "",
                  hadName |-> "", hadType |-> "", old |-> None,
                  holders |-> {}, ok |-> FALSE]
  /\ call = [h |-> "kwp", gen |-> None, live |-> FALSE, closure |-> "none",
             invoked |-> 0, result |-> "none", lost |-> FALSE,
             afterOk |-> FALSE, torn |-> FALSE]
  /\ tpc = "ident"
  /\ attempt = 0
  /\ succeeded = FALSE
  /\ failable = "none"
  /\ opts = [g \in Sessions |->
               IF g = 1 THEN NewOptions(endpoint_type["kwp"]) ELSE NoOptions]
  /\ \E some \in Logger(endpoint_type["kwp"]) :
       log_receiver = [h \in Handles |-> IF h = "kwp" THEN LogReceiver(1, some)
                                         ELSE LogReceiver(None, FALSE)]
  /\ logq = [g \in Sessions |-> 0]
  /\ logOp = [h |-> "none", ty |-> "", can |-> FALSE, queued |-> 0,
              got |-> FALSE, before |-> logq, after |-> logq]

\* CrashAnalyzerUI::new; no worker thread yet.
InitDump ==
  /\ read_state = StNone
  /\ w2 = "none"
  /\ prevTag = "None"
  /\ save_path = FALSE
  /\ wpc = "idle"
  /\ size = [address |-> 0, size |-> 0, bs |-> 0]
  /\ got24 = FALSE
  /\ block_count = 0
  /\ dataLen = 0
  /\ i = 0
  /\ exact = TRUE
  /\ sent = [upload |-> 0, data |-> 0, exit |-> 0]
  /\ lastReq = <<>>
  /\ lastRes = NoExchange
  /\ persisted = -1
  /\ ecuDump \in DumpSizes

\* ConfigPage::new
InitConfig ==
  /\ scn = FALSE
  /\ efuse = "None"
  /\ show_efuse = FALSE
  /\ status = [ok |-> TRUE, text |-> "", err |-> ""]
  /\ upc = "idle"
  /\ show_final_warning = FALSE
  /\ ecuBoard \in BoardTypes
  /\ efuseRead = "None"
  /\ cfgOp = NoExchange
  /\ wlog = NoWrite
  /\ rlog = NoRead
  /\ efuseReq = [sent |-> 0, read |-> "None", board_ver |-> "None",
                 confirmed |-> FALSE]

\* No record is polled.
NoTelemetry ==
  /\ rliId = 32
  /\ rliEcu = [res |-> "Timeout", bytes |-> <<>>]
  /\ ecuScn = SampleConfig
  /\ ecuBoard = "V12"
  /\ flashIn = SampleFlash

Init == InitDiag /\ InitDump /\ InitConfig /\ InitSettings /\ InitFirmware
        /\ InitIdent /\ InitRli /\ InitUnits /\ InitFlash

\* No firmware file chosen, and the sample ECU.
NoFirmware ==
  /\ fwFile = [exists |-> FALSE, bytes |-> <<>>]
  /\ NoTelemetry
SampleEcu == identIn = SampleIdent

\* An ECU whose settings are all at their defaults.
Pristine == ecuSet = [id \in SettingIds |-> DefaultVal]

Next ==
  \/ TestIdent
  \/ TestQuery
  \/ TestBranch
  \/ TestReconnectTake
  \/ TestReconnectConnect
  \/ TestFinal
  \/ CloneHandle
  \/ CloneQuery
  \/ CloneReconnectTake
  \/ CloneReconnectConnect
  \/ TransportLost
  \/ Replug

\* The session handle under the reconnect test, a clone and the device; the
\* pages are not opened.
InitTest == ecuDump = 0 /\ Pristine /\ NoFirmware /\ SampleEcu /\ Init

Spec == InitTest /\ [][Next]_vars

\* The coredump page and its worker on an open session.
NextDump ==
  \/ ClickRead
  \/ ClickNoPath
  \/ WorkerEnter
  \/ SetSession
  \/ Read24
  \/ Upload
  \/ Transfer
  \/ FlashEnd

\* The handle was opened on the USB device, which gave its log stream.
UsbOpen ==
  /\ endpoint_type["kwp"] = "USB"
  /\ log_receiver["kwp"] = LogReceiver(1, TRUE)

\* An open session over USB.
InitOpen ==
  /\ Pristine /\ NoFirmware /\ SampleEcu
  /\ Init
  /\ UsbOpen

SpecDump == InitOpen /\ [][NextDump]_vars

\* The coredump worker and the configuration page on the UI thread, on
\* clones of one handle, with no coredump in the ECU: the worker's closure
\* ends with the answer to 0x24.
NextSerial ==
  \/ ClickRead
  \/ ClickNoPath
  \/ WorkerEnter
  \/ SetSession
  \/ Read24
  \/ ReadConfigFE
  \/ ReadConfigFD
  \/ WriteScnSession
  \/ WriteScnWrite
  \/ WriteScnReset

InitSerial == ecuDump = 0 /\ InitOpen

SpecSerial == InitSerial /\ [][NextSerial]_vars

\* The advanced settings page and its worker on an open session over USB;
\* of the ECU's records only the first may be off its default.
NextSettings ==
  \/ SettingsEnter
  \/ SettingsSession
  \/ SettingsRead
  \/ SelectSetting
  \/ EditValue
  \/ WriteSettings
  \/ ResetSettings
  \/ SaveYml
  \/ LoadYml

InitPage ==
  /\ ecuDump = 0
  /\ NoFirmware /\ SampleEcu
  /\ \E v \in Values :
       ecuSet = [id \in SettingIds |-> IF id = "Tcc" THEN v ELSE DefaultVal]
  /\ Init
  /\ UsbOpen

SpecSettings == InitPage /\ [][NextSettings]_vars

\* A handle and its clone, reconnects of the clone, the device's log
\* stream and its readers.
NextLog ==
  \/ CloneHandle
  \/ CloneReconnectTake
  \/ CloneReconnectConnect
  \/ TransportLost
  \/ Replug
  \/ LogArrive
  \/ ReadLogMsg

SpecLog == InitTest /\ [][NextLog]_vars

\* query_ecu on each record and each answer, and the page's view of a
\* Canbus record.
NextRli ==
  \/ QueryEcu
  \/ ShowCanbus

InitPoll ==
  /\ ecuDump = 0 /\ Pristine /\ SampleEcu
  /\ fwFile = [exists |-> FALSE, bytes |-> <<>>]
  /\ ecuScn = SampleConfig
  /\ ecuBoard = "V12"
  /\ flashIn = SampleFlash
  /\ Init
  /\ UsbOpen

SpecRli == InitPoll /\ [][NextRli]_vars

\* The configuration page after "Read Configuration" has read the ECU's
\* configuration, whatever it is, and the EFUSE of a V1.2 board; frames
\* draw the form.
NextUnits == ShowFrame

InitForm ==
  /\ ecuDump = 0 /\ Pristine /\ SampleEcu
  /\ fwFile = [exists |-> FALSE, bytes |-> <<>>]
  /\ rliId = 32
  /\ rliEcu = [res |-> "Timeout", bytes |-> <<>>]
  /\ InitDiag /\ InitDump /\ InitSettings /\ InitFirmware /\ InitIdent
  /\ InitRli
  /\ UsbOpen
  /\ ecuScn \in CoreConfigs
  /\ scn = TRUE
  /\ scnVal = ecuScn
  /\ frames = 0
  /\ efuse = "V12"
  /\ show_efuse = FALSE
  /\ status = StatusOk("Read OK!")
  /\ upc = "idle"
  /\ show_final_warning = FALSE
  /\ ecuBoard = "V12"
  /\ flashIn = SampleFlash
  /\ InitFlash
  /\ efuseRead = "V12"
  /\ cfgOp = Exchange("readFD", "Ok")
  /\ wlog = NoWrite
  /\ rlog = NoRead
  /\ efuseReq = [sent |-> 0, read |-> "None", board_ver |-> "None",
                 confirmed |-> FALSE]

SpecUnits == InitForm /\ [][NextUnits]_vars

\* The configuration page on an open session over USB: reads, the SCN
\* write, the EFUSE form and its final warning.
NextConfig ==
  \/ ReadConfigFE
  \/ ReadConfigFD
  \/ WriteScnSession
  \/ WriteScnWrite
  \/ WriteScnReset
  \/ SelectBoard
  \/ ClickWriteEfuse
  \/ TakeMeBack
  \/ ConfirmEfuse

InitFuse ==
  /\ ecuDump = 0 /\ Pristine /\ SampleEcu
  /\ fwFile = [exists |-> FALSE, bytes |-> <<>>]
  /\ rliId = 32
  /\ rliEcu = [res |-> "Timeout", bytes |-> <<>>]
  /\ ecuScn = SampleConfig
  /\ flashIn = SampleFlash
  /\ Init
  /\ UsbOpen

SpecConfig == InitFuse /\ [][NextConfig]_vars

\* The coredump page on a handle that is reconnected between reads, with
\* no coredump in the ECU.
NextClosed ==
  \/ PageReconnectTake
  \/ PageReconnectConnect
  \/ ClickReadIdle
  \/ ClickNoPath
  \/ WorkerEnter
  \/ SetSession
  \/ Read24

SpecClosed == InitSerial /\ [][NextClosed]_vars

\* init_flash_mode on each pair of answers of the ECU.
NextFlash == InitFlashMode

InitMode ==
  /\ ecuDump = 0 /\ Pristine /\ SampleEcu
  /\ fwFile = [exists |-> FALSE, bytes |-> <<>>]
  /\ rliId = 32
  /\ rliEcu = [res |-> "Timeout", bytes |-> <<>>]
  /\ ecuScn = SampleConfig
  /\ ecuBoard = "V12"
  /\ Init
  /\ UsbOpen

SpecFlash == InitMode /\ [][NextFlash]_vars

\* The coredump page and up to two worker threads on an open session, with
\* no coredump in the ECU.
NextTwin ==
  \/ ClickRead
  \/ ClickNoPath
  \/ ClickReadAgain
  \/ WorkerEnter
  \/ SetSession
  \/ Read24
  \/ TwinEnter
  \/ TwinSession
  \/ TwinRead24

SpecTwin == InitSerial /\ [][NextTwin]_vars

\* load_binary on each of the files.
NextFirmware == LoadBinary

InitLoad ==
  /\ ecuDump = 0 /\ Pristine /\ SampleEcu /\ NoTelemetry
  /\ Init
  /\ UsbOpen

SpecFirmware == InitLoad /\ [][NextFirmware]_vars

\* query_ecu_data on an open session, for each of the identifications.
NextIdent == QueryEcuData

InitQuery ==
  /\ ecuDump = 0 /\ Pristine /\ NoFirmware
  /\ Init
  /\ UsbOpen

SpecIdent == InitQuery /\ [][NextIdent]_vars

\* ------------------------------------------------------------------ claims
\* Whether a with_kwp call has been made.
Called == call.result /= "none"

C2_WithKwpOnlyPath ==
  Called =>
    /\ (call.gen = None => call.invoked = 0 /\ call.result = "DeviceNotOpen")
    /\ (call.gen /= None => call.invoked = 1 /\ call.result = call.closure)

\* C2: a call on a torn-down handle, refused without running the closure.
C2_Witness ==
  /\ Called
  /\ call.gen = None
  /\ call.invoked = 0
  /\ call.result = "DeviceNotOpen"

\* C4 as stated: when AdapterHw::try_connect is attempted no handle holds
\* the pre-reconnect session or its device any more, and the device is
\* looked up with the name and adapter kind the handle had before.
C4_NoReferenceAtConnect ==
  connectAt.made =>
    /\ connectAt.holders = {}
    /\ connectAt.name = connectAt.hadName
    /\ connectAt.ty = connectAt.hadType

\* C5 as stated: once try_reconnect has been called by a holder of a
\* session, no with_kwp call through any handle runs its closure on that
\* session.
C5_NoStaleSessionUse ==
  Called /\ call.invoked = 1 => ~call.torn

Ceil(a, b) == (a + b - 1) \div b

NothingSent == [upload |-> 0, data |-> 0, exit |-> 0]

\* C7: when local identifier 0x24 reports a size of 0, the step that learns
\* it takes the state from Prepare to Completed and ends the worker, and
\* this transfer sends no request-upload, no transfer-data and no
\* transfer-exit request and accumulates no block and no byte.
C7_EmptyDump ==
  /\ [](got24 /\ size.size = 0 =>
          /\ wpc = "done"
          /\ sent = NothingSent
          /\ dataLen = 0 /\ i = 0 /\ persisted = -1)
  /\ [][~got24 /\ got24' /\ size'.size = 0 =>
          /\ read_state = StPrepare
          /\ read_state' = StCompleted
          /\ sent' = NothingSent]_vars

\* C7: an empty dump was reported and the state is Completed right after
\* Prepare with nothing sent.
C7_Witness ==
  /\ got24 /\ size.size = 0
  /\ read_state = StCompleted /\ prevTag = "Prepare"
  /\ sent = NothingSent

\* C8: while every transfer-data answer carries min(block size, remaining)
\* bytes, the worker has accumulated min(k * block size, size) bytes after
\* k requests, and when it leaves the loop for transfer-exit it has sent
\* exactly ceil(size / block size) requests and holds exactly size bytes.
C8_ExactBlocks ==
  (wpc \in {"loop", "exit"} \/ sent.exit > 0) /\ exact
      /\ size.size > 0 /\ size.bs > 0 =>
    /\ sent.data <= Ceil(size.size, size.bs)
    /\ dataLen = Min(sent.data * size.bs, size.size)
    /\ (wpc = "exit" \/ sent.exit > 0 =>
          sent.data = Ceil(size.size, size.bs) /\ dataLen = size.size)

\* C8: 1000 bytes in blocks of 256: transfer-exit was sent after 4 reads
\* and 1000 bytes.
C8_Witness ==
  /\ size.size = 1000 /\ size.bs = 256
  /\ exact
  /\ sent.data = 4 /\ dataLen = 1000
  /\ sent.exit = 1

\* C9 as stated: every published ReadingBlock state has
\* out_of = ceil(size / block size).
C9_TotalIsCeil ==
  read_state.tag = "ReadingBlock" =>
    read_state.out_of = Ceil(size.size, size.bs)

\* C10: the k-th transfer-data request of a transfer is 0x36 followed by
\* k mod 256: 1 on the first request, one more after every answered block,
\* 0 after 255.
C10_SequenceCounter ==
  Len(lastReq) = 2 /\ lastReq[1] = 54 =>
    /\ sent.data >= 1
    /\ lastReq[2] = sent.data % 256

\* C10: the 256th request of a transfer of 258 blocks carries the counter 0.
C10_Witness ==
  /\ size.size = 258 /\ size.bs = 1 /\ exact
  /\ sent.data = 256 /\ dataLen = 256
  /\ lastReq = <<54, 0>>

\* C3 as stated: at most one request/response sequence issued through
\* with_kwp is in flight at a time.
C3_OneSequenceInFlight == Cardinality(InFlight) <= 1

\* Whether the worker's last exchange before transfer-exit ended in an error.
Failed == lastRes.res \notin {"none", "Ok"} /\ lastRes.op /= "exit"

\* C11: when the session switch, the read of 0x24, the request-upload or a
\* transfer-data request returns an error, the step that gets it writes
\* Aborted with the text of its stage followed by the error and ends the
\* worker; for the rest of that run no request is sent, no transfer-exit
\* has been sent, nothing is persisted and the state stays Aborted.
C11_AbortEndsRun ==
  /\ [](Failed =>
          /\ wpc = "done"
          /\ read_state.tag = "Aborted"
          /\ sent.exit = 0
          /\ persisted = -1
          /\ (lastRes.op = "data" => sent.data >= 1)
          /\ (lastRes.op /= "data" => sent.data = 0))
  /\ [][~Failed /\ Failed' =>
          /\ read_state'.tag = "Aborted"
          /\ read_state'.err = lastRes'.res
          /\ read_state'.text = (IF lastRes'.op = "data"
                                   THEN "ECU rejected transfer data: "
                                   ELSE "ECU rejected flash programming mode: ")
          /\ wpc' = "done"]_vars
  /\ [][Failed /\ Failed' =>
          /\ sent' = sent
          /\ lastReq' = lastReq
          /\ persisted' = persisted
          /\ read_state'.tag = "Aborted"]_vars

\* C11: the second transfer-data request was answered with a negative
\* response after one block had been read.
C11_Witness ==
  /\ lastRes = Exchange("data", "ECUError")
  /\ sent.data = 2 /\ i = 1
  /\ wpc = "done"
  /\ read_state.tag = "Aborted" /\ read_state.err = "ECUError"
  /\ prevTag = "ReadingBlock"

\* C12 as stated: transfer-exit is sent only once the accumulated bytes
\* have reached the size, what is persisted is the accumulated bytes less
\* their first 20, and a non-empty transfer is Completed only if its
\* transfer-exit was acknowledged and its bytes were persisted.
C12_CompletedMeansPersisted ==
  /\ (sent.exit > 0 => dataLen >= size.size)
  /\ (persisted >= 0 => persisted = dataLen - HeaderLen)
  /\ (read_state.tag = "Completed" /\ size.size > 0 =>
        /\ lastRes = Exchange("exit", "Ok")
        /\ persisted = dataLen - HeaderLen)

DoneTags == {"None", "Completed", "Aborted"}

C14_WorkerSoleWriter ==
  [][read_state' /= read_state =>
       wpc \in {"spawned", "session", "read24", "upload", "loop", "exit"}]_vars

FirstMagic(buf) ==
  LET at == {k \in 0 .. Len(buf) - Len(HEADER_MAGIC) :
               SubSeq(buf, k + 1, k + Len(HEADER_MAGIC)) = HEADER_MAGIC}
  IN IF at = {} THEN -1 ELSE CHOOSE k \in at : \A j \in at : k <= j

\* The bytes of the file from offset k to its end.
BytesFrom(buf, k) == Len(buf) - k

Loaded == fwResult.tag /= "none" /\ fwFile.exists

\* C16 as stated: load_binary parses a file whose first magic is at offset 0 or 49
\* with at least 256 bytes from that offset on, the header taken from that
\* offset; it fails with NotValid when the first magic is at offset 51,
\* when there is none, and when fewer than 256 bytes follow from the
\* offset of the first one.
C16_HeaderDiscovery ==
  Loaded =>
    LET f == FirstMagic(fwFile.bytes) IN
      /\ (f \in {0, 49} /\ BytesFrom(fwFile.bytes, f) >= 256 =>
            /\ fwResult.tag = "Ok"
            /\ fwResult.start = f
            /\ fwResult.magic = <<50, 84, 205, 171>>
            /\ fwResult.rawLen = Len(fwFile.bytes))
      /\ (f = 51 \/ f = -1 \/ (f >= 0 /\ BytesFrom(fwFile.bytes, f) < 256) =>
            fwResult.tag = "NotValid")

\* A file with 49 bytes before the magic and exactly 256 bytes from it on
\* was parsed: the misaligned read of its header copied the bytes.
C16_Witness ==
  /\ Loaded
  /\ FirstMagic(fwFile.bytes) = 49
  /\ Len(fwFile.bytes) = 49 + 256
  /\ fwResult.tag = "Ok" /\ fwResult.start = 49

\* C17 as stated: load_binary accepts a file only when its first magic is
\* at one of the offsets 0 .. 49, and rejects as NotValid every file whose
\* first magic is at offset 50 or later.
C17_MagicInFirst50 ==
  Loaded =>
    LET f == FirstMagic(fwFile.bytes) IN
      /\ (fwResult.tag = "Ok" => f \in 0 .. 49)
      /\ (f >= 50 => fwResult.tag = "NotValid")

\* The two nibbles of a byte, read as decimal digits.
Spelled(b) ==
  LET hi == CHOOSE h \in 0 .. 15 : b - 16 * h \in 0 .. 15
  IN 10 * hi + (b - 16 * hi)

Queried == identOut.tag = "Ok"

\* C18: every date field of IdentData is bcd_decode_to_int of its byte,
\* 10 * (b >> 4) + (b & 0xF) for each of the 256 values whatever the
\* nibbles are; for a byte with both nibbles in 0 .. 9 that is the decimal
\* number the two digits spell, in 0 .. 99, 49 for 0x49 and 0 for 0x00.
C18_BcdDecode ==
  Queried =>
    LET b == identIn.ecu_hw_build_week
        y == identIn.ecu_hw_build_year
    IN /\ identOut.data.hw_week = Spelled(b)
       /\ identOut.data.hw_year = Spelled(y)
       /\ identOut.data.manf_day = Spelled(identIn.ecu_production_day)
       /\ identOut.data.manf_month = Spelled(identIn.ecu_production_month)
       /\ identOut.data.manf_year = Spelled(identIn.ecu_production_year)
       /\ identOut.data.sw_week = Spelled(identIn.ecu_sw_build_week)
       /\ identOut.data.sw_year = Spelled(identIn.ecu_sw_build_year)
       /\ (b \div 16 <= 9 /\ b % 16 <= 9 => identOut.data.hw_week \in 0 .. 99)
       /\ (b = 73 => identOut.data.hw_week = 49)
       /\ (b = 0 => identOut.data.hw_week = 0)
       /\ (b = 26 => identOut.data.hw_week = 20)

\* C18: week 0x49 was decoded to 49 and the year byte 0xFF, not a BCD
\* number, to 165.
C18_Witness ==
  /\ Queried
  /\ identIn.ecu_hw_build_week = 73 /\ identOut.data.hw_week = 49
  /\ identIn.ecu_hw_build_year = 255 /\ identOut.data.hw_year = 165

\* C19: the board version of query_ecu_data is V1.1 exactly for the decoded
\* hardware build (week, year) = (49, 21), V1.2 exactly for (27, 22), V1.3
\* exactly for (49, 22) and Unknown for every other pair.
C19_BoardTable ==
  Queried =>
    LET w == Spelled(identIn.ecu_hw_build_week)
        y == Spelled(identIn.ecu_hw_build_year)
        v == identOut.data.board_ver
    IN /\ (v = "OnePointOne" <=> w = 49 /\ y = 21)
       /\ (v = "OnePointTwo" <=> w = 27 /\ y = 22)
       /\ (v = "OnePointThree" <=> w = 49 /\ y = 22)
       /\ (v = "Unknown" <=> <<w, y>> \notin {<<49, 21>>, <<27, 22>>, <<49, 22>>})

\* C19: a board of week 0x27 of year 0x22 was found to be a V1.2.
C19_Witness ==
  /\ Queried
  /\ identIn.ecu_hw_build_week = 39 /\ identIn.ecu_hw_build_year = 34
  /\ identOut.data.board_ver = "OnePointTwo"

\* C20: the codes 0x0251, 0x0252 and 0x0253 are all decoded to EGS51 and
\* every other 16-bit code c to Unknown(c); EGS52 and EGS53 are never the
\* result.
C20_EgsModeDecoding ==
  Queried =>
    LET c == identIn.info_id
        m == identOut.data.egs_mode
    IN /\ (c \in {593, 594, 595} => m.tag = "EGS51")
       /\ (c \notin {593, 594, 595} => m.tag = "Unknown" /\ m.code = c)
       /\ m.tag \notin {"EGS52", "EGS53"}

\* C20: the code 0x0253 was decoded to EGS51.
C20_Witness ==
  /\ Queried
  /\ identIn.info_id = 595
  /\ identOut.data.egs_mode = EGS51

\* The sessions built so far: the first open and every reconnect that
\* returned Ok.
BuiltSessions == 1 .. built

\* C21: every session Nag52Diag::new built, at first open and after each
\* successful reconnect, sends on 0x7E1 and receives on 0x7E9, has read and
\* write timeouts of 10000 ms, tester present every 2000 ms with a response
\* required, and session mode 0x93 registered; its ISO-TP block size and
\* separation time are 8 and 0x20 when the adapter is SocketCAN and 0 and 0
\* on USB and Pass-Thru.  The session a handle holds was built for the
\* handle's adapter kind.
C21_SessionOptions ==
  /\ \A g \in BuiltSessions :
       /\ opts[g].send_id = 2017
       /\ opts[g].recv_id = 2025
       /\ opts[g].read_timeout_ms = 10000
       /\ opts[g].write_timeout_ms = 10000
       /\ opts[g].tester_present_interval_ms = 2000
       /\ opts[g].tester_present_require_response
       /\ 147 \in opts[g].modes
       /\ opts[g].ty \in {"USB", "Passthru", "SocketCAN"}
       /\ (opts[g].ty = "SocketCAN"
             => opts[g].block_size = 8 /\ opts[g].st_min = 32)
       /\ (opts[g].ty /= "SocketCAN"
             => opts[g].block_size = 0 /\ opts[g].st_min = 0)
  /\ \A h \in exists :
       server[h] /= None => opts[server[h]].ty = endpoint_type[h]

\* C21: a reconnect over SocketCAN returned Ok and the handle holds the
\* rebuilt session, with a block size of 8.
C21_Witness ==
  /\ connectAt.made /\ connectAt.ok
  /\ server["clone"] > 1
  /\ opts[server["clone"]].ty = "SocketCAN"
  /\ opts[server["clone"]].block_size = 8

\* Whether read_log_msg has been called.
LogRead == logOp.h /= "none"

RECURSIVE SumTo(_, _)
SumTo(q, n) == IF n = 0 THEN 0 ELSE q[n] + SumTo(q, n - 1)

\* The messages the last read_log_msg removed from the queues.
Taken == SumTo(logOp.before, MaxGen) - SumTo(logOp.after, MaxGen)

\* C22: only a handle opened over USB can read the log: on Pass-Thru and
\* SocketCAN can_read_log is false and read_log_msg returns None; on every
\* handle read_log_msg returns at once, takes at most one queued message
\* (exactly one when it returns a message, none when it returns None, and
\* none from any other session's queue) and returns None when nothing is
\* queued.
C22_LogOnlyOverUsb ==
  /\ \A h \in exists :
       endpoint_type[h] /= "USB" => ~can_read_log(log_receiver[h])
  /\ LogRead =>
       /\ (logOp.ty /= "USB" => ~logOp.can /\ ~logOp.got)
       /\ (logOp.queued = 0 => ~logOp.got)
       /\ (~logOp.can => ~logOp.got)
       /\ (logOp.got => Taken = 1)
       /\ (~logOp.got => Taken = 0)
       /\ \A g \in Sessions : logOp.after[g] <= logOp.before[g]

\* C22: a read on a USB handle with two messages queued returned one and
\* left one.
C22_Witness ==
  /\ LogRead
  /\ logOp.ty = "USB"
  /\ logOp.queued = 2
  /\ logOp.got
  /\ SumTo(logOp.after, MaxGen) = 1

\* Whether query_ecu has been called.
Polled == rliOut.tag /= "none"

\* The sizes the structs of the records declare, in bytes.
DeclaredSize(id) ==
  CASE id = 32 -> 17
    [] id = 33 -> 32
    [] id = 34 -> 29
    [] id = 35 -> 24
    [] id = 37 -> 12
    [] id = 39 -> 19

\* C23: query_ecu reads the identifier it is called on, once; it returns a
\* read error as it is, decodes nothing then, rejects an answer shorter than
\* the declared size of the record's struct with InvalidResponseLength, and
\* an Ok result is the variant bound to the identifier: 0x20 Sensors, 0x21
\* Solenoids, 0x22 Canbus, 0x23 SysUsage, 0x25 Pressures, 0x27
\* ShiftMonitorLive, with every field of the struct decoded from an answer
\* of the declared size.
C23_QueryEcu ==
  Polled =>
    /\ rliId \in {32, 33, 34, 35, 37, 39}
    /\ rliReads = <<rliId>>
    /\ (rliEcu.res /= "Ok" => rliOut = RliErr(rliEcu.res))
    /\ (rliEcu.res = "Ok" /\ Len(rliEcu.bytes) < DeclaredSize(rliId)
          => rliOut = RliErr("InvalidResponseLength"))
    /\ (rliOut.tag = "Err" => rliOut.fields = <<>> /\ rliOut.variant = "")
    /\ (rliOut.tag = "Ok" =>
          /\ rliEcu.res = "Ok"
          /\ Len(rliEcu.bytes) = DeclaredSize(rliId)
          /\ Len(rliOut.fields) = Len(Layout(rliId))
          /\ rliId = 32 => rliOut.variant = "Sensors"
          /\ rliId = 33 => rliOut.variant = "Solenoids"
          /\ rliId = 34 => rliOut.variant = "Canbus"
          /\ rliId = 35 => rliOut.variant = "SysUsage"
          /\ rliId = 37 => rliOut.variant = "Pressures"
          /\ rliId = 39 => rliOut.variant = "ShiftMonitorLive")

\* C23: an answer to 0x27 that is one byte short was rejected.
C23_Witness ==
  /\ Polled
  /\ rliId = 39
  /\ rliEcu.res = "Ok"
  /\ Len(rliEcu.bytes) = 18
  /\ rliOut = RliErr("InvalidResponseLength")

\* The torque fields of DataCanDump that the table and the chart both show,
\* and the offset of each in the answer to 0x22.
TorqueOffsets == [min_torque_ms |-> 1, static_torque |-> 5, driver_torque |-> 7]

\* The field behind offset off was received as 0xFFFF.
ReceivedSentinel(off) ==
  rliEcu.bytes[off + 1] = 255 /\ rliEcu.bytes[off + 2] = 255

\* A chart value some torque other than the sentinel has: raw / 4 - 500 for
\* a raw value of 0 .. 0xFFFE, in quarters of a Nm.
OrdinaryTorque(v) == v + 2000 \in 0 .. 65534

\* C24: a torque field of a Canbus record received as 0xFFFF stays
\* distinct: the decoded record holds 0xFFFF, the table shows it as not
\* available, and the chart data does not give it the value of an ordinary
\* torque.
C24_SentinelPreserved ==
  rliView.shown =>
    \A f \in DOMAIN TorqueOffsets :
      ReceivedSentinel(TorqueOffsets[f]) =>
        /\ rliOut.fields[CanFields[f]] = 65535
        /\ rliView.table[f].na
        /\ ~OrdinaryTorque(rliView.chart[f])

\* C25: the unit transforms of the form invert exactly: after any number
\* of frames that drew a loaded configuration with no edit, diff_ratio,
\* transfer_case_high_ratio, transfer_case_low_ratio and engine_drag_torque
\* hold the raw values that were read.
C25_UnitsInvert ==
  scn /\ frames > 0 => scnVal = ecuScn

\* The exchanges of the SCN write and of the EFUSE write.
WriteOps ==
  {"scn", "scn-session", "scn-write", "scn-reset",
   "efuse", "efuse-session", "efuse-write", "efuse-reset"}

\* C26: every failure of the SCN write or of the EFUSE write (no session,
\* set session, the 0x3B request, the reset) leaves the page with an error
\* status that carries the failure.
C26_WriteFailureShown ==
  cfgOp.op \in WriteOps /\ cfgOp.res /= "Ok" =>
    ~status.ok /\ status.err = cfgOp.res

\* C28: a 0x3B 0xFD request is sent only when the last successful read of
\* 0xFD reported Unknown, the board variant chosen is not Unknown and the
\* final warning was confirmed.
C28_EfuseWriteGated ==
  efuseReq.sent > 0 =>
    /\ efuseReq.read = "Unknown"
    /\ efuseReq.board_ver /= "Unknown"
    /\ efuseReq.confirmed

\* The worker's with_kwp found no session.
NotOpenAtRead == lastRes = Exchange("with_kwp", "DeviceNotOpen")

\* C27: a coredump read started on a handle whose session is not open
\* ends in Aborted with a message that carries the failure.
C27_NotOpenSurfaced ==
  NotOpenAtRead =>
    /\ read_state.tag = "Aborted"
    /\ read_state.err = "DeviceNotOpen"

\* The value of three big-endian bytes of a request from index k (from 1).
Be3(req, k) == req[k] * 65536 + req[k + 1] * 256 + req[k + 2]

\* The little-endian value of the four bytes of the 0x24 answer from k.
Told(k) ==
  flashIn.info[k + 1] + flashIn.info[k + 2] * 256
    + flashIn.info[k + 3] * 65536 + flashIn.info[k + 4] * 16777216

\* C29: init_flash_mode ends with InvalidResponseLength on a 0x24 answer
\* that is not 8 bytes long and, once the request-upload is sent, on an
\* answer to it that is not 3 bytes long; the request-upload it sends is
\* 0x35 0x31 and two fields of 3 big-endian bytes, which equal the address
\* and the size of the 0x24 answer when these are below 2^24; the block
\* size it returns is the big-endian value of bytes 1 and 2 of the answer.
C29_InitFlashMode ==
  flashOut.done =>
    /\ Len(flashIn.info) /= 8 =>
         flashOut.res = "InvalidResponseLength" /\ flashOut.req = <<>>
    /\ flashOut.req /= <<>> =>
         /\ Len(flashOut.req) = 8
         /\ flashOut.req[1] = 53 /\ flashOut.req[2] = 49
         /\ Told(0) < 16777216 => Be3(flashOut.req, 3) = Told(0)
         /\ Told(4) < 16777216 => Be3(flashOut.req, 6) = Told(4)
         /\ Len(flashIn.up) /= 3 => flashOut.res = "InvalidResponseLength"
         /\ Len(flashIn.up) = 3 =>
              /\ flashOut.res = "Ok"
              /\ flashOut.bs = flashIn.up[2] * 256 + flashIn.up[3]
              /\ flashOut.address = Told(0)
              /\ flashOut.size = Told(4)

\* The dump of 65535 bytes at 0x310000 is taken in blocks of 256.
C29_Witness ==
  /\ flashOut.done /\ flashOut.res = "Ok"
  /\ flashIn.info = <<0, 0, 49, 0, 255, 255, 0, 0>>
  /\ flashIn.up = <<117, 1, 0>>
  /\ flashOut.req = <<53, 49, 49, 0, 0, 0, 255, 255>>
  /\ flashOut.bs = 256

\* The worker thread has ended, by return or by panic: it writes the
\* state no more.
WorkerEnded == wpc \in {"done", "panicked"}

\* C30: a run that reached Prepare ends in Completed or Aborted whatever
\* the ECU answers: when the worker thread has ended, the state is not
\* left at Prepare or ReadingBlock.
C30_RunEndsDone ==
  WorkerEnded => read_state.tag \notin {"Prepare", "ReadingBlock"}

\* The worker publishes a ReadingBlock state in this step.
PublishesBlock ==
  /\ wpc = "loop"
  /\ read_state'.tag = "ReadingBlock"
  /\ read_state' /= read_state

\* C31: in every ReadingBlock state the worker publishes, id is between 1
\* and out_of and equals the number of blocks received so far,
\* bytes_written is the number of payload bytes accumulated, and it is
\* above that of the ReadingBlock state before whenever the block carried
\* payload.
C31_BlockProgress ==
  [][PublishesBlock =>
       /\ 1 <= read_state'.id /\ read_state'.id <= read_state'.out_of
       /\ read_state'.id = i'
       /\ read_state'.bytes_written = dataLen'
       /\ (dataLen' > dataLen /\ read_state.tag = "ReadingBlock" =>
             read_state'.bytes_written > read_state.bytes_written)]_vars

\* A worker thread that was spawned and has not ended.
Active(pc) == pc \notin {"idle", "none", "done", "panicked"}

\* C32: at most one coredump worker is active at a time: no second one is
\* spawned between a click that spawns one and that worker's end.
C32_OneWorker == ~(Active(wpc) /\ Active(w2))

\* The last try_reconnect failed and its handle has called no other since.
FailedReconnect ==
  connectAt.made /\ ~connectAt.ok /\ hpc[connectAt.h] = "idle"

\* C33: after a failed try_reconnect the handle holds no session and no
\* endpoint, and its HardwareInfo and adapter kind are those it had; a
\* with_kwp on a handle without a session returns the not-open error with
\* the closure not run; every try_reconnect looks the device up with the
\* name and the adapter kind the handle had.
C33_FailedReconnect ==
  /\ FailedReconnect =>
       /\ server[connectAt.h] = None
       /\ endpoint[connectAt.h] = None
       /\ info[connectAt.h] = connectAt.hadName
       /\ endpoint_type[connectAt.h] = connectAt.hadType
  /\ Called /\ call.gen = None =>
       call.invoked = 0 /\ call.result = "DeviceNotOpen"
  /\ connectAt.made =>
       connectAt.name = connectAt.hadName /\ connectAt.ty = connectAt.hadType

\* C33: the test's second try_reconnect, on the handle its first one left
\* without a session, succeeded.
C33_Witness ==
  /\ attempt = 2
  /\ succeeded
  /\ connectAt.ok /\ connectAt.h = "kwp" /\ connectAt.old = None
  /\ server["kwp"] /= None

\* The records the worker has read so far, and those it has not.
ReadSoFar == {SettingOrder[k] : k \in 1 .. sidx}
NotYetRead == SettingIds \ ReadSoFar

\* C34: the settings worker reads only after set-session 0x93 succeeded; a
\* page in Err has issued no read and all seven records are Uninitialized;
\* the records are read in the order TCC, SOL, SBS, NAG, PRM, ADP, ETS,
\* each one ending as LoadOk or LoadErr, a failed read being followed by
\* the next; and the page is Ok only after all seven were read, when no
\* record is Uninitialized.
C34_SettingsLoad ==
  /\ sidx > 0 => ready \in {Waiting("Reading TCC Settings"), PageOk}
  /\ ready.tag = "Err" =>
       sidx = 0 /\ \A id \in SettingIds : rec[id] = Unint
  /\ \A id \in ReadSoFar : rec[id].st \in {"LoadOk", "LoadErr"}
  /\ \A id \in NotYetRead : rec[id] = Unint
  /\ spc = "read" => ready.tag = "Waiting" /\ sidx < Len(SettingOrder)
  /\ ready.tag = "Ok" =>
       /\ sidx = Len(SettingOrder)
       /\ \A id \in SettingIds : rec[id].st \in {"LoadOk", "LoadErr"}

\* C34: the load went on after the read of TCC failed, and the page is Ok.
C34_Witness ==
  /\ ready = PageOk
  /\ rec["Tcc"].st = "LoadErr"
  /\ \A id \in SettingIds \ {"Tcc"} : rec[id].st = "LoadOk"

\* C34: set-session failed, the page is in Err with nothing read.
C34_WitnessErr ==
  ready.tag = "Err" /\ spc = "done" /\ sidx = 0

\* The block identifier a write of the kind carries: 0xFE, 0xFD.
BlockIdOf == [scn |-> 254, efuse |-> 253]

\* C35: the SCN write and the EFUSE write each run, in one with_kwp call,
\* set-session Reprogramming, then the write request 0x3B with the block
\* identifier 0xFE or 0xFD, then the ECU reset, in that order, each step
\* only after the one before it succeeded.
C35_WriteOrder ==
  wlog.kind /= "none" =>
    /\ wlog.calls = 1
    /\ Len(wlog.steps) <= 3
    /\ Len(wlog.steps) >= 1 => wlog.steps[1].op = "session"
    /\ Len(wlog.steps) >= 2 =>
         /\ wlog.steps[1].res = "Ok"
         /\ wlog.steps[2].op = "write"
         /\ wlog.steps[2].req = <<59, BlockIdOf[wlog.kind]>>
    /\ Len(wlog.steps) >= 3 =>
         /\ wlog.steps[2].res = "Ok"
         /\ wlog.steps[3].op = "reset"

\* C35: an SCN write whose three steps were all sent.
C35_Witness ==
  /\ wlog.kind = "scn"
  /\ Len(wlog.steps) = 3
  /\ wlog.steps[3].op = "reset"

\* C35: an EFUSE write that ended with the refused write request.
C35_WitnessEfuse ==
  /\ wlog.kind = "efuse"
  /\ Len(wlog.steps) = 2
  /\ wlog.steps[2].res /= "Ok"

\* C36: a "Read Configuration" whose closure runs reads 0xFE and then 0xFD
\* whatever the first read gave; a block whose read or decoding failed is
\* left as the page held it before the click; and the status line after
\* the click is an error exactly when one of the two failed.
ReadsDone == upc = "readFD" /\ upc' = "idle"
C36_ReadBoth ==
  [][/\ (upc = "idle" /\ upc' = "readFD") => rlog'.ids = <<254>>
     /\ ReadsDone =>
          /\ rlog'.ids = <<254, 253>>
          /\ Len(rlog'.res) = 2
          /\ rlog'.res[1] = rlog.res[1]
          /\ rlog'.res[1] /= "Ok" => <<scn', scnVal'>> = rlog'.scn0
          /\ rlog'.res[1] = "Ok" => scn' /\ scnVal' = ecuScn
          /\ rlog'.res[2] /= "Ok" => efuse' = rlog'.efuse0
          /\ rlog'.res[2] = "Ok" => efuse' = ecuBoard
          /\ ~status'.ok <=> (rlog'.res[1] /= "Ok" \/ rlog'.res[2] /= "Ok")]_vars

\* A read of 0xFE failed with a block already loaded, the read of 0xFD that
\* followed succeeded, and the status line is the error of the first.
C36_Witness ==
  /\ upc = "idle"
  /\ rlog.ids = <<254, 253>>
  /\ rlog.res[1] = "Timeout" /\ rlog.res[2] = "Ok"
  /\ rlog.scn0[1] /\ scn /\ scnVal = rlog.scn0[2]
  /\ ~status.ok
  /\ cfgOp = Exchange("readFD", "Ok")

\* A read of 0xFE succeeded and the decoding of 0xFD failed with an EFUSE
\* block already loaded: the block is kept and the status is the error.
C36_WitnessFD ==
  /\ upc = "idle"
  /\ rlog.ids = <<254, 253>>
  /\ rlog.res = <<"Ok", "unpack">>
  /\ rlog.efuse0 /= "None" /\ efuse = rlog.efuse0
  /\ ~status.ok
  /\ cfgOp = Exchange("readFD", "unpack")

\* C37 as stated: on every file that opens, whatever its length,
\* load_binary returns a Firmware or NotValid and slices no byte past the
\* end of the buffer; a Firmware has its header from the first offset of
\* the magic and the whole file in raw.
C37_LoadTotal ==
  Loaded =>
    /\ fwResult.tag \in {"Ok", "NotValid"}
    /\ ScanTop(fwFile.bytes, 0) <= Len(fwFile.bytes)
    /\ fwResult.tag = "Ok" =>
         /\ fwResult.start = FirstMagic(fwFile.bytes)
         /\ fwResult.start + HEADER_SIZE <= Len(fwFile.bytes)
         /\ fwResult.rawLen = Len(fwFile.bytes)

\* C38: the board version of every IdentData that query_ecu_data returns
\* is from_date of the hw_week and hw_year of that record, and a query
\* whose identification read failed returns that error and no IdentData.
C38_IdentConsistent ==
  /\ identOut.tag = "Ok" =>
       /\ identOut.data.board_ver =
            from_date(identOut.data.hw_week, identOut.data.hw_year)
       /\ identOut.err = ""
  /\ identOut.tag = "Err" =>
       /\ identOut.data = <<>>
       /\ identOut.err \in ReqErrors

\* A board of week 0x49 of year 0x22 was identified as a 1.3.
C38_Witness ==
  /\ identOut.tag = "Ok"
  /\ identIn.ecu_hw_build_week = 73 /\ identIn.ecu_hw_build_year = 34
  /\ identOut.data.hw_week = 49 /\ identOut.data.hw_year = 22
  /\ identOut.data.board_ver = "OnePointThree"

\* The identification of that board was not answered: the query returned
\* the timeout.
C38_WitnessErr ==
  /\ identOut = IdentErr("Timeout")
  /\ identIn.ecu_hw_build_week = 73 /\ identIn.ecu_hw_build_year = 34

====
